---- MODULE Spec2Model ----
(***************************************************************************)
(* Backtest engine of zhangbinhui/stock-monitor:                           *)
(*   - capital simulation ("ledger") of joinquant_volatility_v4_backup.py  *)
(*     Cell 7 (identical, minus the positions checks, to Cell 7 of         *)
(*     joinquant_volatility_v4.2.py);                                      *)
(*   - simulate_daily_exit of strategies/joinquant_volatility_v5.py;       *)
(*   - the per-stock scan loop of backtest_signals of the same file;       *)
(*   - the pool dates of one stock, build_rolling_pool of                  *)
(*     joinquant_volatility_v4.2.py;                                       *)
(*   - backtest_single_rolling of joinquant_volatility_v4.2.py;            *)
(*   - the replay of the ledger on one trade table (v4.2 Cell 7);          *)
(*   - the parameter grid search around backtest_signals (v5 Cell 4);      *)
(*   - the capital simulation of the overnight-reversal scripts            *)
(*     (joinquant_overnight_reversal_v1/v2/v3, Cell 7);                    *)
(*   - check_stop_loss_alerts of portfolio_monitor.py;                     *)
(*   - the download loop of step_pool of strategies/jq_data_cache.py.      *)
(*                                                                         *)
(* Money is in whole yuan (tenths of a yuan in the overnight-reversal      *)
(* simulation).  Trading days are numbered 1, 2, 3, ... in calendar order, *)
(* so comparing day numbers is comparing the ISO date strings the code     *)
(* compares.                                                               *)
(***************************************************************************)
EXTENDS Integers, Sequences, FiniteSets, TLC

VARIABLES
    \* ---- ledger (v4_backup Cell 7) ----
    capital, peak_capital, max_drawdown, positions, trade_log,
    consecutive_losses, strategy_paused, pause_reason, daily_pnl,
    cur_date, n_seen, lpc,
    \* ---- simulate_daily_exit (v5) ----
    buy_price, initial_stop_pct, trailing_profit_pct, max_hold_days, daily,
    stop_price, highest_since_buy, trailing_sell_price, breakeven_activated,
    day_idx, sell_result, epc,
    \* ---- backtest_signals (v5), one stock ----
    min_df, day, trade_date_idx, last_signal_date_idx, last_sell_date,
    all_signals, scan_args, iter, iter_forward, iter_result, spc,
    \* ---- build_rolling_pool (v4.2), one stock ----
    market_cap, pool_bars, pool_j, valid_dates, ppc,
    \* ---- backtest_single_rolling (v4.2), one stock and one parameter set ----
    roll_args, roll_df, roll_i, roll_last_idx, signals, roll_iter, rpc,
    \* ---- Cell 7 (v4.2) run twice on one table ----
    trades_df, run_no, first_summary,
    \* ---- Cell 4 and backtest_signals (v5): the grid search ----
    param_grid, sorted_stocks, grid_pi, grid_si, bt_signals, stock_summaries, grid_results, gdf, gpc,
    \* ---- Cell 7 of the overnight-reversal scripts: the capital simulation ----
    sim_mode, sim_top_n, sim_capital, sim_peak_capital, consecutive_loss_days, stopped, stop_reason, daily_log, all_details, sim_day, npc,
    \* ---- portfolio_monitor.py: the intraday stop-loss check and its alert_state.json ----
    alert_state, high_prices, today, rt, alerts, sent, apc,
    \* ---- jq_data_cache.py step_pool: the daily-bar cache and the provider quota ----
    cache_files, cache_pos, downloaded, cached, quota_exhausted, spare, fetches, pool_calendar, pool_file, cache_run, cpc

ledgerVars == <<capital, peak_capital, max_drawdown, positions, trade_log,
                consecutive_losses, strategy_paused, pause_reason, daily_pnl,
                cur_date, n_seen, lpc>>

exitVars == <<buy_price, initial_stop_pct, trailing_profit_pct, max_hold_days,
              daily, stop_price, highest_since_buy, trailing_sell_price,
              breakeven_activated, day_idx, sell_result, epc>>

scanVars == <<min_df, day, trade_date_idx, last_signal_date_idx, last_sell_date,
              all_signals, scan_args, iter, iter_forward, iter_result, spc>>

poolVars == <<market_cap, pool_bars, pool_j, valid_dates, ppc>>

rollVars == <<roll_args, roll_df, roll_i, roll_last_idx, signals, roll_iter, rpc>>

replayVars == <<trades_df, run_no, first_summary>>

gridVars == <<param_grid, sorted_stocks, grid_pi, grid_si, bt_signals, stock_summaries, grid_results, gdf, gpc>>

nightVars == <<sim_mode, sim_top_n, sim_capital, sim_peak_capital, consecutive_loss_days, stopped, stop_reason, daily_log, all_details, sim_day, npc>>

alertVars == <<alert_state, high_prices, today, rt, alerts, sent, apc>>

cacheVars == <<cache_files, cache_pos, downloaded, cached, quota_exhausted, spare, fetches, pool_calendar, pool_file, cache_run, cpc>>

vars == <<ledgerVars, exitVars, scanVars, poolVars, rollVars, replayVars, gridVars, nightVars, alertVars, cacheVars>>

\* ---------------------------------------------------------------------
\* helpers
\* ---------------------------------------------------------------------
Min(a, b) == IF a <= b THEN a ELSE b
Max(a, b) == IF a >= b THEN a ELSE b

RECURSIVE SumSeq(_, _)
\* sum of f[1..n]
SumSeq(f, n) == IF n = 0 THEN 0 ELSE f[n] + SumSeq(f, n - 1)

\* =====================================================================
\* Ledger
\* =====================================================================
INIT_CAPITAL         == 50000
MAX_PER_TRADE        == 10000
COMMISSION_PER_SIDE  == 5
MAX_POSITIONS        == 5
DAILY_LOSS_LIMIT     == -1000
MAX_CONSECUTIVE_LOSS == 10
TOTAL_LOSS_LIMIT     == -20000

\* number of candidate rows of trades_df a run may hold
MaxCandidates == 7

\* rows of trades_df: (code, trigger_price, sell_price).  A row is a signal
\* of backtest_single_rolling, bought at the trigger bar's close and sold on
\* the stock's next daily bar.
CandidateRows ==
    { [code |-> 1, trigger_price |-> 100, sell_price |-> 101],   \* small win
      [code |-> 2, trigger_price |-> 100, sell_price |-> 95],    \* loss of 510
      [code |-> 3, trigger_price |-> 30,  sell_price |-> 26],    \* three lots, loss of 1210
      [code |-> 4, trigger_price |-> 120, sell_price |-> 121] }  \* one lot costs more than MAX_PER_TRADE

\* variant: the purchase is sized on twice the cash
MaxAfford_Margin(cap) == 2 * cap

\* max_afford = min(MAX_PER_TRADE, capital - COMMISSION_PER_SIDE)
MaxAfford(cap) == Min(MAX_PER_TRADE, cap - COMMISSION_PER_SIDE)

\* variant: the share count is not rounded down to whole lots
Shares_NoLot(max_afford, price) == max_afford \div price

\* shares = int(max_afford / buy_price / 100) * 100   (max_afford >= 0 here)
Shares(max_afford, price) == (max_afford \div (price * 100)) * 100

BuyCost(shares, price)      == shares * price + COMMISSION_PER_SIDE
SellRevenue(shares, price)  == shares * price - COMMISSION_PER_SIDE

\* variant: the buy commission is not taken from the account
CapitalAfter_NoBuyFee(cap, buy_cost, sell_revenue) ==
    cap - (buy_cost - COMMISSION_PER_SIDE) + sell_revenue

\* capital -= buy_cost ; capital += sell_revenue
CapitalAfter(cap, buy_cost, sell_revenue) == cap - buy_cost + sell_revenue

\* daily_pnl.get(d, 0)
DailyPnlGet(dp, d) == IF d \in DOMAIN dp THEN dp[d] ELSE 0

\* variant: the pause flag is ignored by the loop
RowProcessed_Always(paused) == TRUE

\* the loop body runs for a row only while the strategy is not paused:
\* `if strategy_paused: continue` at the top, `break` after each trigger
RowProcessed(paused) == ~paused

\* variant: a winning trade does not reset the counter
LossCounter_NoReset(cl, pnl) == IF pnl <= 0 THEN cl + 1 ELSE cl

\* consecutive_losses after a trade of this pnl
LossCounter(cl, pnl) == IF pnl <= 0 THEN cl + 1 ELSE 0

\* variant: the total-loss check comes first, the daily-loss check last
RiskReason_TotalFirst(dpnl, cl, cap) ==
    IF cap - INIT_CAPITAL <= TOTAL_LOSS_LIMIT THEN "total_loss"
    ELSE IF cl >= MAX_CONSECUTIVE_LOSS THEN "consecutive_losses"
    ELSE IF dpnl <= DAILY_LOSS_LIMIT THEN "daily_loss"
    ELSE ""

\* the three risk checks, in the order of the code; "" when none fires
RiskReason(dpnl, cl, cap) ==
    IF dpnl <= DAILY_LOSS_LIMIT THEN "daily_loss"
    ELSE IF cl >= MAX_CONSECUTIVE_LOSS THEN "consecutive_losses"
    ELSE IF cap - INIT_CAPITAL <= TOTAL_LOSS_LIMIT THEN "total_loss"
    ELSE ""

LedgerInit ==
    /\ capital = INIT_CAPITAL
    /\ peak_capital = INIT_CAPITAL
    /\ max_drawdown = 0
    /\ positions = <<>>
    /\ trade_log = <<>>
    /\ consecutive_losses = 0
    /\ strategy_paused = FALSE
    /\ pause_reason = ""
    /\ daily_pnl = <<>>
    /\ cur_date = 1
    /\ n_seen = 0
    /\ lpc = "run"

\* one iteration of `for _, trade in trades_df.iterrows()` for a table of at
\* most maxn rows drawn from rows, the row's date drawn from dates
LedgerRow(rows, dates, maxn) ==
    /\ lpc = "run"
    /\ n_seen < maxn
    /\ RowProcessed(strategy_paused)
    /\ \E row \in rows, buy_date \in dates :
         LET max_afford   == MaxAfford(capital)
             shares       == Shares(max_afford, row.trigger_price)
             buy_cost     == BuyCost(shares, row.trigger_price)
             sell_revenue == SellRevenue(shares, row.sell_price)
             pnl          == sell_revenue - buy_cost
             cap2         == CapitalAfter(capital, buy_cost, sell_revenue)
             dpnl         == DailyPnlGet(daily_pnl, buy_date) + pnl
             peak2        == Max(peak_capital, cap2)
             \* the daily-loss check breaks before the counter is updated
             cl2          == IF dpnl <= DAILY_LOSS_LIMIT THEN consecutive_losses
                             ELSE LossCounter(consecutive_losses, pnl)
             reason       == RiskReason(dpnl, cl2, cap2)
         IN
         /\ cur_date' = buy_date
         /\ n_seen' = n_seen + 1
         /\ IF \/ row.code \in DOMAIN positions
               \/ Cardinality(DOMAIN positions) >= MAX_POSITIONS
               \/ max_afford < row.trigger_price * 100
               \/ shares <= 0
            THEN \* continue
                 UNCHANGED <<capital, peak_capital, max_drawdown, positions,
                             trade_log, consecutive_losses, strategy_paused,
                             pause_reason, daily_pnl, lpc>>
            ELSE /\ capital' = cap2
                 /\ trade_log' = Append(trade_log,
                        [buy_date |-> buy_date, code |-> row.code,
                         shares |-> shares, buy_price |-> row.trigger_price,
                         sell_price |-> row.sell_price, pnl |-> pnl,
                         capital_after |-> cap2])
                 /\ daily_pnl' = [d \in (DOMAIN daily_pnl) \cup {buy_date} |->
                                    IF d = buy_date THEN dpnl ELSE daily_pnl[d]]
                 /\ peak_capital' = peak2
                 /\ max_drawdown' = Min(max_drawdown, cap2 - peak2)
                 /\ consecutive_losses' = cl2
                 /\ strategy_paused' = (reason # "")
                 /\ pause_reason' = reason
                 /\ UNCHANGED <<positions, lpc>>
    /\ UNCHANGED <<exitVars, scanVars, poolVars, rollVars, replayVars, gridVars, nightVars, alertVars, cacheVars>>

\* trades_df is sorted by date, so the row's date is that of the previous
\* row or later
ProcessCandidate ==
    LedgerRow(CandidateRows, {cur_date, cur_date + 1}, MaxCandidates)

\* ---- tables that run into the loss counter ----
\* rows of such a table, and how many winning rows it may hold
MaxLossRows == 25
MaxWins     == 2

LossRow    == [code |-> 5, trigger_price |-> 100, sell_price |-> 91]   \* loss of 910
WinRow     == [code |-> 1, trigger_price |-> 100, sell_price |-> 101]  \* win of 90
BigLossRow == [code |-> 3, trigger_price |-> 100, sell_price |-> 89]   \* loss of 1110

\* lose_trades / win_trades of the report: a trade with pnl <= 0 is a loss
IsLoss(pnl) == pnl <= 0

Wins(log) == Cardinality({ i \in 1..Len(log) : ~IsLoss(log[i].pnl) })

\* a table with one signal per trading day
ProcessLossRun ==
    LedgerRow({LossRow, BigLossRow}
                \cup (IF Wins(trade_log) < MaxWins THEN {WinRow} ELSE {}),
              {cur_date + 1}, MaxLossRows)

\* the loop runs out of rows
LedgerEnd ==
    /\ lpc = "run"
    /\ lpc' = "done"
    /\ UNCHANGED <<capital, peak_capital, max_drawdown, positions, trade_log,
                   consecutive_losses, strategy_paused, pause_reason,
                   daily_pnl, cur_date, n_seen>>
    /\ UNCHANGED <<exitVars, scanVars, poolVars, rollVars, replayVars, gridVars, nightVars, alertVars, cacheVars>>

LedgerNext == ProcessCandidate \/ LedgerEnd

LossRunNext == ProcessLossRun \/ LedgerEnd

\* =====================================================================
\* Cell 7 executed twice on one table trades_df
\* (joinquant_volatility_v4.2.py; v4_backup has the same cell).
\* run_no counts the executions; first_summary is what the first one printed.
\* =====================================================================
\* rows of the tables explored
ReplayLen == 3

\* trades_df = pd.DataFrame(all_trades).sort_values('date'): the rows come
\* in date order
ReplayTables ==
    { t \in UNION { [1..n -> [row : CandidateRows, date : 1..2]] : n \in 1..ReplayLen } :
        \A k \in 1..(Len(t) - 1) : t[k].date <= t[k + 1].date }

\* variant: the row is booked under the day on which the cell is executed
RowDate_Today(r, run) == run

\* buy_date = trade['date']
RowDate(r, run) == r.date

\* the figures of the result block, the pause reason and the trade log
Summary ==
    [trade_log       |-> trade_log,
     capital         |-> capital,
     total_pnl       |-> capital - INIT_CAPITAL,
     peak_capital    |-> peak_capital,
     max_drawdown    |-> max_drawdown,
     total_trades    |-> Len(trade_log),
     win_trades      |-> Wins(trade_log),
     lose_trades     |-> Len(trade_log) - Wins(trade_log),
     strategy_paused |-> strategy_paused,
     pause_reason    |-> pause_reason]

NoSummary ==
    [trade_log |-> <<>>, capital |-> 0, total_pnl |-> 0, peak_capital |-> 0,
     max_drawdown |-> 0, total_trades |-> 0, win_trades |-> 0, lose_trades |-> 0,
     strategy_paused |-> FALSE, pause_reason |-> ""]

ReplayIdle ==
    /\ trades_df = <<>> /\ run_no = 0 /\ first_summary = NoSummary

ReplayInit ==
    /\ trades_df \in ReplayTables
    /\ run_no = 1
    /\ first_summary = NoSummary

\* the loop body for the next row of the table
ReplayRow ==
    /\ n_seen < Len(trades_df)
    /\ LedgerRow({trades_df[n_seen + 1].row},
                 {RowDate(trades_df[n_seen + 1], run_no)}, Len(trades_df))

\* the loop is left: the table is exhausted, or a risk limit has stopped it
ReplayEnd ==
    /\ (n_seen = Len(trades_df) \/ strategy_paused)
    /\ LedgerEnd

\* the cell is executed again on the same table: its first statements
\* assign every local anew
ReplayAgain ==
    /\ lpc = "done"
    /\ run_no = 1
    /\ run_no' = 2
    /\ first_summary' = Summary
    /\ capital' = INIT_CAPITAL
    /\ peak_capital' = INIT_CAPITAL
    /\ max_drawdown' = 0
    /\ positions' = <<>>
    /\ trade_log' = <<>>
    /\ consecutive_losses' = 0
    /\ strategy_paused' = FALSE
    /\ pause_reason' = ""
    /\ daily_pnl' = <<>>
    /\ cur_date' = 1
    /\ n_seen' = 0
    /\ lpc' = "run"
    /\ UNCHANGED trades_df
    /\ UNCHANGED <<exitVars, scanVars, poolVars, rollVars, gridVars, nightVars, alertVars, cacheVars>>

ReplayNext == ReplayRow \/ ReplayEnd \/ ReplayAgain

\* =====================================================================
\* simulate_daily_exit (strategies/joinquant_volatility_v5.py)
\*
\* Prices are integers (one unit = 0.1 yuan).  Price LEVELS (stop_price,
\* trailing_sell_price, sell prices) are kept multiplied by 100, so that
\* buy_price * (1 - pct) is the integer buy_price * (100 - pct) with pct in
\* whole percent; on this grid round(x, 3) changes nothing.
\* =====================================================================
INITIAL_STOP_LIST    == {5, 7}
TRAILING_PROFIT_LIST == {8, 10}
BREAKEVEN_TRIGGER    == 5

\* longest holding period explored; MAX_HOLD_DAYS_LIST of the code is
\* [10, 20], the model runs the same loop with the two values below
MaxHold == 3
MAX_HOLD_DAYS_LIST == {MaxHold - 1, MaxHold}

\* trading days after the buy date that the fetch window can hold
FetchDays == MaxHold + 1

NoBar == [high |-> 0, low |-> 0, close |-> 0]     \* no daily bar that day (suspended)
DailyBars ==
    { [high |-> 104, low |-> 100, close |-> 102],    \* quiet day
      [high |-> 112, low |-> 106, close |-> 110],    \* rally
      [high |-> 112, low |-> 100, close |-> 101],    \* spike and reversal
      [high |-> 101, low |-> 96,  close |-> 97] }    \* sell-off

BuyPrices == {100, 102}

None == [sell_price |-> 0, sell_type |-> "None", hold_days |-> 0, highest |-> 0]

\* daily[daily.index.date > buy_date_dt]: the bars that exist
RECURSIVE ForwardBars(_)
ForwardBars(cal) ==
    IF cal = <<>> THEN <<>>
    ELSE IF Head(cal) = NoBar THEN ForwardBars(Tail(cal))
    ELSE <<Head(cal)>> \o ForwardBars(Tail(cal))

\* stop_price = buy_price * (1 - initial_stop_pct)
InitialStop(buy, s) == buy * (100 - s)

\* variant: the peak follows the day's high down as well as up
NewHighest_Last(h, day_high) == day_high

\* if day_high > highest_since_buy: highest_since_buy = day_high
NewHighest(h, day_high) == IF day_high > h THEN day_high ELSE h

\* current_profit_pct >= breakeven_trigger_pct
BreakevenReached(h, buy) == (h - buy) * 100 >= BREAKEVEN_TRIGGER * buy

\* trailing_sell_price = highest_since_buy * (1 - trailing_profit_pct)
TrailingLevel(h, t) == h * (100 - t)

\* variant: the trailing level is tested before the stop
ExitDayStep_TrailingFirst(es, bar, hold, buy, t) ==
    LET h    == NewHighest(es.highest_since_buy, bar.high)
        lock == ~es.breakeven_activated /\ BreakevenReached(h, buy)
        stop == IF lock THEN buy * 100 ELSE es.stop_price
        tr   == TrailingLevel(h, t)
        es2  == [stop_price |-> stop, highest_since_buy |-> h,
                 trailing_sell_price |-> tr,
                 breakeven_activated |-> es.breakeven_activated \/ lock]
    IN IF tr > stop /\ bar.low * 100 <= tr
       THEN [es |-> es2,
             res |-> [sell_price |-> tr, sell_type |-> "trailing_profit",
                      hold_days |-> hold, highest |-> h]]
       ELSE IF bar.low * 100 <= es.stop_price
       THEN [es |-> es,
             res |-> [sell_price |-> es.stop_price, sell_type |-> "initial_stop",
                      hold_days |-> hold, highest |-> es.highest_since_buy]]
       ELSE [es |-> es2, res |-> None]

\* one iteration of the day loop on a day that has a bar.
\* es: the locals [stop_price, highest_since_buy, trailing_sell_price,
\* breakeven_activated]; returns the locals after the iteration and the
\* returned tuple (None when the loop goes on)
ExitDayStep(es, bar, hold, buy, t) ==
    IF bar.low * 100 <= es.stop_price
    THEN [es  |-> es,
          res |-> [sell_price |-> es.stop_price,
                   sell_type  |-> IF es.breakeven_activated /\ es.stop_price >= buy * 100
                                  THEN "breakeven_stop" ELSE "initial_stop",
                   hold_days  |-> hold,
                   highest    |-> es.highest_since_buy]]
    ELSE LET h    == NewHighest(es.highest_since_buy, bar.high)
             lock == ~es.breakeven_activated /\ BreakevenReached(h, buy)
             stop == IF lock THEN buy * 100 ELSE es.stop_price
             tr   == TrailingLevel(h, t)
             es2  == [stop_price |-> stop, highest_since_buy |-> h,
                      trailing_sell_price |-> tr,
                      breakeven_activated |-> es.breakeven_activated \/ lock]
         IN IF tr > stop /\ bar.low * 100 <= tr
            THEN [es |-> es2,
                  res |-> [sell_price |-> tr, sell_type |-> "trailing_profit",
                           hold_days |-> hold, highest |-> h]]
            ELSE [es |-> es2, res |-> None]

\* step 5: sell at the close of daily.iloc[min(max_hold_days - 1, len(daily) - 1)]
TimeExit(cal, max_hold, h) ==
    LET bars == ForwardBars(cal)
    IN IF Len(bars) > 0
       THEN [sell_price |-> bars[Min(max_hold, Len(bars))].close * 100,
             sell_type  |-> "time_exit",
             hold_days  |-> Min(max_hold, Len(bars)),
             highest    |-> h]
       ELSE None

RECURSIVE NthBarDay(_, _, _)
\* position in the calendar of the n-th bar of `daily`, counted from day k + 1
NthBarDay(cal, n, k) ==
    IF k >= Len(cal) THEN 0
    ELSE IF cal[k + 1] = NoBar THEN NthBarDay(cal, n, k + 1)
    ELSE IF n = 1 THEN k + 1
    ELSE NthBarDay(cal, n - 1, k + 1)

\* trading days between the buy date and the bar the returned price is taken
\* from: the bar of the iteration that returned (hold_days = day_idx + 1), or
\* daily.iloc[min(max_hold_days - 1, len(daily) - 1)] in step 5
SellBarDay(cal, res) ==
    IF res.sell_type = "time_exit" THEN NthBarDay(cal, res.hold_days, 0)
    ELSE res.hold_days

\* locals at the start of the loop
ExitLocals(buy, s) ==
    [stop_price |-> InitialStop(buy, s), highest_since_buy |-> buy,
     trailing_sell_price |-> 0, breakeven_activated |-> FALSE]

\* for day_idx, date in enumerate(trade_days_after_buy), from index k
RECURSIVE ExitLoop(_, _, _, _, _, _)
ExitLoop(es, k, cal, buy, t, max_hold) ==
    IF k >= max_hold \/ k >= Len(cal)
    THEN TimeExit(cal, max_hold, es.highest_since_buy)
    ELSE IF cal[k + 1] = NoBar
    THEN ExitLoop(es, k + 1, cal, buy, t, max_hold)
    ELSE LET r == ExitDayStep(es, cal[k + 1], k + 1, buy, t)
         IN IF r.res # None THEN r.res
            ELSE ExitLoop(r.es, k + 1, cal, buy, t, max_hold)

\* variant: without forward bars the position is closed at the entry price
SimulateDailyExit_Fabricate(cal, buy, s, t, max_hold) ==
    IF ForwardBars(cal) = <<>>
    THEN [sell_price |-> buy * 100, sell_type |-> "time_exit",
          hold_days |-> 0, highest |-> buy]
    ELSE ExitLoop(ExitLocals(buy, s), 0, cal, buy, t, max_hold)

\* the whole call; cal[k] is the k-th trading day after the buy date within
\* the fetch window (NoBar when the stock has no bar that day)
SimulateDailyExit(cal, buy, s, t, max_hold) ==
    IF ForwardBars(cal) = <<>>
    THEN None
    ELSE ExitLoop(ExitLocals(buy, s), 0, cal, buy, t, max_hold)

\* ---- the same function, one loop iteration per step ----
ExitIdle ==
    /\ buy_price = 0 /\ initial_stop_pct = 0 /\ trailing_profit_pct = 0
    /\ max_hold_days = 0 /\ daily = <<>>
    /\ stop_price = 0 /\ highest_since_buy = 0 /\ trailing_sell_price = 0
    /\ breakeven_activated = FALSE /\ day_idx = 0
    /\ sell_result = None /\ epc = "off"

\* the call: arguments, and the calendar of the fetch window
ExitInit ==
    /\ buy_price \in BuyPrices
    /\ initial_stop_pct \in INITIAL_STOP_LIST
    /\ trailing_profit_pct \in TRAILING_PROFIT_LIST
    /\ max_hold_days \in MAX_HOLD_DAYS_LIST
    /\ daily \in UNION { [1..n -> DailyBars \cup {NoBar}] : n \in 0..FetchDays }
    /\ stop_price = 0 /\ highest_since_buy = 0 /\ trailing_sell_price = 0
    /\ breakeven_activated = FALSE /\ day_idx = 0
    /\ sell_result = None /\ epc = "fetch"

\* get_price, the two emptiness checks, the initialisation of the locals
ExitFetch ==
    /\ epc = "fetch"
    /\ IF ForwardBars(daily) = <<>>
       THEN /\ epc' = "done"
            /\ UNCHANGED <<stop_price, highest_since_buy, trailing_sell_price,
                           breakeven_activated>>
       ELSE /\ epc' = "loop"
            /\ stop_price' = ExitLocals(buy_price, initial_stop_pct).stop_price
            /\ highest_since_buy' = buy_price
            /\ trailing_sell_price' = 0
            /\ breakeven_activated' = FALSE
    /\ UNCHANGED <<buy_price, initial_stop_pct, trailing_profit_pct,
                   max_hold_days, daily, day_idx, sell_result>>
    /\ UNCHANGED <<ledgerVars, scanVars, poolVars, rollVars, replayVars, gridVars, nightVars, alertVars, cacheVars>>

\* one iteration of the day loop
ExitDay ==
    /\ epc = "loop"
    /\ day_idx < max_hold_days
    /\ day_idx < Len(daily)
    /\ day_idx' = day_idx + 1
    /\ IF daily[day_idx + 1] = NoBar
       THEN UNCHANGED <<stop_price, highest_since_buy, trailing_sell_price,
                        breakeven_activated, sell_result, epc>>
       ELSE LET es == [stop_price |-> stop_price,
                       highest_since_buy |-> highest_since_buy,
                       trailing_sell_price |-> trailing_sell_price,
                       breakeven_activated |-> breakeven_activated]
                r  == ExitDayStep(es, daily[day_idx + 1], day_idx + 1,
                                  buy_price, trailing_profit_pct)
            IN /\ stop_price' = r.es.stop_price
               /\ highest_since_buy' = r.es.highest_since_buy
               /\ trailing_sell_price' = r.es.trailing_sell_price
               /\ breakeven_activated' = r.es.breakeven_activated
               /\ sell_result' = r.res
               /\ epc' = IF r.res # None THEN "done" ELSE "loop"
    /\ UNCHANGED <<buy_price, initial_stop_pct, trailing_profit_pct,
                   max_hold_days, daily>>
    /\ UNCHANGED <<ledgerVars, scanVars, poolVars, rollVars, replayVars, gridVars, nightVars, alertVars, cacheVars>>

\* the loop ends without a return: step 5
ExitExpire ==
    /\ epc = "loop"
    /\ (day_idx >= max_hold_days \/ day_idx >= Len(daily))
    /\ sell_result' = TimeExit(daily, max_hold_days, highest_since_buy)
    /\ epc' = "done"
    /\ UNCHANGED <<buy_price, initial_stop_pct, trailing_profit_pct,
                   max_hold_days, daily, stop_price, highest_since_buy,
                   trailing_sell_price, breakeven_activated, day_idx>>
    /\ UNCHANGED <<ledgerVars, scanVars, poolVars, rollVars, replayVars, gridVars, nightVars, alertVars, cacheVars>>

ExitNext == ExitFetch \/ ExitDay \/ ExitExpire

\* =====================================================================
\* backtest_signals (strategies/joinquant_volatility_v5.py): the scan of
\* one stock of the pool.
\*
\* trade_date_idx is the position the date loop has reached in trade_dates.
\* min_df holds the intraday rows [date, open, close].  While day d is
\* scanned the table also holds the rows of day d + 1; rows older than the
\* lookback window of d are dropped, no later day can read them.
\* Returns are in units of 0.1 %.
\* =====================================================================
COOLDOWN_DAYS == 2
MIN_DAY_BARS  == 5

\* get_lookback_bars(freq, period) is bars_per_day * days (504 at least);
\* the model scans with a window of this many bars
LookbackBars == 4

\* trading days of intraday data, END_DATE being day NDays
NDays == 6

\* closes of the bars of one day, every bar opening at 100
DayShapes ==
    { <<>>,                           \* no intraday rows that day
      <<102, 102, 102>>,              \* partial session
      <<99, 99, 99, 99, 99>>,         \* every bar falls
      <<101, 99, 101, 99, 101>>,      \* small moves
      <<99, 102, 103, 99, 99>> }      \* two large bars

\* what a forward trading day of a scanned stock can look like
ScanDailyBars ==
    { NoBar,
      [high |-> 104, low |-> 100, close |-> 102],
      [high |-> 112, low |-> 100, close |-> 101] }

\* the entries of param_grid the scan is run with
ScanGrid ==
    { [initial_stop_pct |-> 5, trailing_profit_pct |-> 8,  max_hold_days |-> MaxHold - 1],
      [initial_stop_pct |-> 7, trailing_profit_pct |-> 10, max_hold_days |-> MaxHold] }

DayRows(shape, d) ==
    [k \in 1..Len(shape) |-> [date |-> d, open |-> 100, close |-> shape[k]]]

\* min_df['bar_return'] = min_df['close'] / min_df['open'] - 1
BarReturn(row) == ((row.close - row.open) * 1000) \div row.open

\* variant: the rows are not filtered by date
Hist_Unfiltered(df, d) == df

\* hist = min_df[min_df['date'] < date]
Hist(df, d) == SelectSeq(df, LAMBDA r : r.date < d)

\* day_bars = min_df[min_df['date'] == date]
DayBarsOf(df, d) == SelectSeq(df, LAMBDA r : r.date = d)

\* hist.iloc[-lookback_bars:]
LastN(seq, n) ==
    IF Len(seq) <= n THEN seq ELSE SubSeq(seq, Len(seq) - n + 1, Len(seq))

RECURSIVE MaxReturn(_)
\* hist_returns.max()
MaxReturn(rows) ==
    IF Len(rows) = 1 THEN BarReturn(rows[1])
    ELSE Max(BarReturn(rows[1]), MaxReturn(Tail(rows)))

\* variant: the sign of the threshold is not checked
ThresholdUsable_Any(th) == TRUE

\* not (pd.isna(threshold) or threshold <= 0)
ThresholdUsable(th) == th > 0

\* variant: the cooldown test is off by one
InCooldown_Strict(i, last_idx) == i - last_idx < COOLDOWN_DAYS

\* i - last_signal_date_idx <= cooldown
InCooldown(i, last_idx) == i - last_idx <= COOLDOWN_DAYS

\* variant: the bar of the day with the largest return is taken
FirstTrigger_Largest(bars, th) ==
    IF \E k \in 1..Len(bars) : BarReturn(bars[k]) > th
    THEN CHOOSE k \in 1..Len(bars) :
            \A j \in 1..Len(bars) :
                BarReturn(bars[j]) < BarReturn(bars[k])
                \/ (BarReturn(bars[j]) = BarReturn(bars[k]) /\ k <= j)
    ELSE 0

\* index of the first bar of the day whose return exceeds the threshold, 0 if none
FirstTrigger(bars, th) ==
    IF \E k \in 1..Len(bars) : BarReturn(bars[k]) > th
    THEN CHOOSE k \in 1..Len(bars) :
            /\ BarReturn(bars[k]) > th
            /\ \A j \in 1..(k - 1) : ~(BarReturn(bars[j]) > th)
    ELSE 0

\* one iteration of `for i, date in enumerate(trade_dates)` up to the scan of
\* the day's bars: where it stops, and what it has computed by then
ScanToTrigger(df, d, i, last_idx, last_sell) ==
    LET day_bars == DayBarsOf(df, d)
        hist     == Hist(df, d)
        window   == LastN(hist, LookbackBars)
        th       == MaxReturn(window)
        k        == FirstTrigger(day_bars, th)
        blank    == [stage |-> "", date |-> d, threshold |-> 0, window |-> <<>>,
                     day_max |-> 0, trigger_idx |-> 0, trigger_price |-> 0,
                     trigger_return |-> 0]
    IN IF InCooldown(i, last_idx) THEN [blank EXCEPT !.stage = "cooldown"]
       ELSE IF last_sell # 0 /\ d <= last_sell THEN [blank EXCEPT !.stage = "holding"]
       ELSE IF Len(day_bars) < MIN_DAY_BARS THEN [blank EXCEPT !.stage = "short_day"]
       ELSE IF Len(hist) < LookbackBars THEN [blank EXCEPT !.stage = "short_hist"]
       ELSE LET seen == [blank EXCEPT !.threshold = th,
                                      !.window = [j \in 1..Len(window) |-> window[j].date],
                                      !.day_max = MaxReturn(day_bars)]
            IN IF ~ThresholdUsable(th) THEN [seen EXCEPT !.stage = "bad_threshold"]
               ELSE IF k = 0 THEN [seen EXCEPT !.stage = "no_trigger"]
               ELSE [seen EXCEPT !.stage = "triggered", !.trigger_idx = k,
                                 !.trigger_price = day_bars[k].close,
                                 !.trigger_return = BarReturn(day_bars[k])]

\* the rows kept once day d is done: the window of day d + 1 and its rows
KeepRows(df, d) ==
    LastN(SelectSeq(df, LAMBDA r : r.date <= d), LookbackBars)
    \o SelectSeq(df, LAMBDA r : r.date > d)

NoIteration == [stage |-> "off", date |-> 0, threshold |-> 0, window |-> <<>>,
                day_max |-> 0, trigger_idx |-> 0, trigger_price |-> 0,
                trigger_return |-> 0]

ScanIdle ==
    /\ min_df = <<>> /\ day = 0 /\ trade_date_idx = 0
    /\ last_signal_date_idx = -999 /\ last_sell_date = 0
    /\ all_signals = <<>>
    /\ scan_args = [initial_stop_pct |-> 0, trailing_profit_pct |-> 0,
                    max_hold_days |-> 0]
    /\ iter = NoIteration /\ iter_forward = 0 /\ iter_result = None
    /\ spc = "off"

\* the state when the date loop of a stock starts
ScanInit ==
    /\ \E shape \in DayShapes : min_df = DayRows(shape, 1)
    /\ day = 0
    /\ trade_date_idx = 0
    /\ last_signal_date_idx = -999
    /\ last_sell_date = 0
    /\ all_signals = <<>>
    /\ scan_args \in ScanGrid
    /\ iter = NoIteration /\ iter_forward = 0 /\ iter_result = None
    /\ spc = "scan"

\* calendar day d = day + 1 goes by.  If d is a pool date of the stock with
\* intraday rows it is the next element of trade_dates and the loop body
\* runs for it.
ScanDay ==
    /\ spc = "scan"
    /\ day < NDays
    /\ \E next_shape \in DayShapes, in_pool \in BOOLEAN :
         LET d    == day + 1
             df   == min_df \o (IF d < NDays THEN DayRows(next_shape, d + 1) ELSE <<>>)
             i    == trade_date_idx
             it   == ScanToTrigger(df, d, i, last_signal_date_idx, last_sell_date)
         IN /\ (d >= NDays => next_shape = <<>>)
            /\ day' = d
            /\ min_df' = KeepRows(df, d)
            /\ UNCHANGED <<scan_args, spc>>
            /\ IF ~(in_pool /\ DayBarsOf(df, d) # <<>>)
               THEN /\ iter' = [NoIteration EXCEPT !.stage = "not_trade_date", !.date = d]
                    /\ iter_forward' = 0 /\ iter_result' = None
                    /\ UNCHANGED <<trade_date_idx, last_signal_date_idx,
                                   last_sell_date, all_signals>>
               ELSE /\ trade_date_idx' = i + 1
                    /\ IF it.stage # "triggered"
                       THEN /\ iter' = it
                            /\ iter_forward' = 0 /\ iter_result' = None
                            /\ UNCHANGED <<last_signal_date_idx, last_sell_date,
                                           all_signals>>
                       ELSE \E cal \in [1..Min(NDays - d, FetchDays)
                                          -> ScanDailyBars] :
                            LET res == SimulateDailyExit(cal, it.trigger_price,
                                           scan_args.initial_stop_pct,
                                           scan_args.trailing_profit_pct,
                                           scan_args.max_hold_days)
                            IN /\ iter_forward' = Len(ForwardBars(cal))
                               /\ iter_result' = res
                               /\ IF res = None
                                  THEN /\ iter' = [it EXCEPT !.stage = "no_exit"]
                                       /\ UNCHANGED <<last_signal_date_idx,
                                                      last_sell_date, all_signals>>
                                  ELSE /\ iter' = [it EXCEPT !.stage = "signal"]
                                       /\ last_signal_date_idx' = i
                                       \* sell_trade_days[hold_days]
                                       /\ last_sell_date' = d + res.hold_days
                                       /\ all_signals' = Append(all_signals,
                                            [date |-> d,
                                             trigger_idx |-> it.trigger_idx,
                                             buy_price |-> it.trigger_price,
                                             bar_return |-> it.trigger_return,
                                             threshold |-> it.threshold,
                                             window |-> it.window,
                                             sell_price |-> res.sell_price,
                                             sell_type |-> res.sell_type,
                                             hold_days |-> res.hold_days,
                                             sell_bar_date |-> d + SellBarDay(cal, res)])
    /\ UNCHANGED <<ledgerVars, exitVars, poolVars, rollVars, replayVars, gridVars, nightVars, alertVars, cacheVars>>

\* trade_dates is exhausted
ScanEnd ==
    /\ spc = "scan"
    /\ day = NDays
    /\ spc' = "done"
    /\ UNCHANGED <<min_df, day, trade_date_idx, last_signal_date_idx,
                   last_sell_date, all_signals, scan_args, iter, iter_forward,
                   iter_result>>
    /\ UNCHANGED <<ledgerVars, exitVars, poolVars, rollVars, replayVars, gridVars, nightVars, alertVars, cacheVars>>

ScanNext == ScanDay \/ ScanEnd

\* =====================================================================
\* The grid search (strategies/joinquant_volatility_v5.py, Cell 4) and the
\* whole of backtest_signals that it calls for every entry of param_grid.
\*
\* grid_pi is the entry being evaluated, grid_si the number of stocks of
\* sorted_stocks the call has gone through, bt_signals and stock_summaries
\* the lists all_signals and stock_summaries of the call; grid_results and
\* gdf are the lists of Cells 4 and 5.
\* =====================================================================
\* entries of param_grid
GridLen == 2

\* MAX_STOCKS: the stocks of the pool that are scanned
MaxStocks == 2

\* get_lookback_bars(freq, period): '3m' is the window of the scan; no
\* stock of the model has the bars of a '1y' window
GetLookbackBars(period) == IF period = "3m" THEN LookbackBars ELSE 10 * LookbackBars

\* the combinations param_grid is built from
GridCombos ==
    { [period |-> "3m", initial_stop_pct |-> 5, trailing_profit_pct |-> 8,
       max_hold_days |-> MaxHold - 1],
      [period |-> "3m", initial_stop_pct |-> 7, trailing_profit_pct |-> 10,
       max_hold_days |-> MaxHold],
      [period |-> "1y", initial_stop_pct |-> 5, trailing_profit_pct |-> 8,
       max_hold_days |-> MaxHold - 1] }

QuietDay == <<101, 99, 101, 99, 101>>
BurstDay == <<99, 102, 103, 99, 99>>

QuietBar == [high |-> 104, low |-> 100, close |-> 102]
SpikeBar == [high |-> 112, low |-> 100, close |-> 101]

RECURSIVE RowsOf(_, _)
\* the intraday table of a stock whose day d has the closes shapes[d]
RowsOf(shapes, d) ==
    IF d > Len(shapes) THEN <<>>
    ELSE DayRows(shapes[d], d) \o RowsOf(shapes, d + 1)

\* the stocks of the pool.  raises: the calls to the data provider that
\* raise for this stock: 0 is the get_price of the intraday table, d the
\* calls made for a signal of day d
StockUniverse ==
    { [code |-> 1, valid_dates |-> 1..6,
       min_df |-> RowsOf(<<QuietDay, BurstDay, QuietDay, QuietDay, BurstDay, QuietDay>>, 1),
       daily |-> <<QuietBar, QuietBar, SpikeBar, QuietBar, QuietBar, QuietBar>>,
       raises |-> r] : r \in {{}, {0}, {5}} }
    \cup
    { [code |-> 2, valid_dates |-> 1..6,
       min_df |-> RowsOf(<<QuietDay, QuietDay, QuietDay, QuietDay, QuietDay, QuietDay>>, 1),
       daily |-> <<QuietBar, QuietBar, QuietBar, QuietBar, QuietBar, QuietBar>>,
       raises |-> {}] }
    \cup
    { [code |-> 3, valid_dates |-> 2..6,
       min_df |-> RowsOf(<<QuietDay, QuietDay, QuietDay, BurstDay, QuietDay, QuietDay>>, 1),
       daily |-> <<QuietBar, QuietBar, QuietBar, QuietBar, SpikeBar, QuietBar>>,
       raises |-> r] : r \in {{}, {4}} }

\* sorted(pool_calendar.items(), key=lambda x: -len(x[1]))[:max_stocks]:
\* stocks of different codes, the longer pool calendars first
StockLists ==
    { l \in UNION { [1..n -> StockUniverse] : n \in 1..MaxStocks } :
        /\ \A a, b \in 1..Len(l) : a # b => l[a].code # l[b].code
        /\ \A a \in 1..(Len(l) - 1) :
              Cardinality(l[a].valid_dates) >= Cardinality(l[a + 1].valid_dates) }

\* param_grid: the combinations, each once, in the order of the nested loops
ParamGrids ==
    { g \in [1..GridLen -> GridCombos] :
        \A a, b \in 1..GridLen : a # b => g[a] # g[b] }

\* net_ret > 0, net_ret = (sell_price - trigger_price) / trigger_price * 100 - FEE_RATE_PCT
\* with FEE_RATE_PCT = 0.1
IsWin(sig) == (sig.sell_price - sig.buy_price * 100) * 1000 > sig.buy_price * 100

RECURSIVE ScanDates(_, _, _, _, _, _, _)
\* for i, date in enumerate(trade_dates), from calendar day d on, i being
\* the index the next trade date gets; sigs are the signals appended so far
ScanDates(stock, args, d, i, last_idx, last_sell, sigs) ==
    IF d > Len(stock.daily) THEN [signals |-> sigs, raised |-> FALSE]
    ELSE IF d \notin stock.valid_dates \/ DayBarsOf(stock.min_df, d) = <<>>
    THEN ScanDates(stock, args, d + 1, i, last_idx, last_sell, sigs)
    ELSE LET it == ScanToTrigger(stock.min_df, d, i, last_idx, last_sell)
         IN IF it.stage # "triggered"
            THEN ScanDates(stock, args, d + 1, i + 1, last_idx, last_sell, sigs)
            ELSE IF d \in stock.raises
            THEN [signals |-> sigs, raised |-> TRUE]
            ELSE LET cal == [k \in 1..Min(Len(stock.daily) - d, FetchDays) |->
                                stock.daily[d + k]]
                     res == SimulateDailyExit(cal, it.trigger_price,
                                args.initial_stop_pct, args.trailing_profit_pct,
                                args.max_hold_days)
                 IN IF res = None
                    THEN ScanDates(stock, args, d + 1, i + 1, last_idx, last_sell, sigs)
                    ELSE ScanDates(stock, args, d + 1, i + 1, i, d + res.hold_days,
                             Append(sigs,
                                 [code |-> stock.code, date |-> d,
                                  buy_price |-> it.trigger_price,
                                  sell_price |-> res.sell_price,
                                  sell_type |-> res.sell_type,
                                  hold_days |-> res.hold_days]))

\* the try block of one stock: the signals it appends to all_signals and
\* whether it is left through `except: continue`
ScanStock(stock, args) ==
    IF 0 \in stock.raises THEN [signals |-> <<>>, raised |-> TRUE]
    ELSE IF Len(stock.min_df) < GetLookbackBars(args.period)
    THEN [signals |-> <<>>, raised |-> FALSE]
    ELSE ScanDates(stock, args, 1, 0, -999, 0, <<>>)

\* variant: the list of the previous call is kept
NewList_Keep(old) == old

\* all_signals = [] ; stock_summaries = []
NewList(old) == <<>>

\* the summary of the call ('汇总'): number of signals, of winning ones, of
\* stocks with signals
BacktestSummary(sigs, summaries) ==
    [total  |-> Len(sigs),
     wins   |-> Cardinality({ n \in 1..Len(sigs) : IsWin(sigs[n]) }),
     stocks |-> Len(summaries)]

NoResult == [signals |-> <<>>, stock_summaries |-> <<>>,
             summary |-> [total |-> 0, wins |-> 0, stocks |-> 0]]

\* the value backtest_signals returns: None without signals
BacktestResult(sigs, summaries) ==
    IF sigs = <<>> THEN NoResult
    ELSE [signals |-> sigs, stock_summaries |-> summaries,
          summary |-> BacktestSummary(sigs, summaries)]

\* variant: a row is appended for every combination
Recorded_Always(result) == TRUE

\* if result:
Recorded(result) == result # NoResult

GridIdle ==
    /\ param_grid = <<>> /\ sorted_stocks = <<>> /\ grid_pi = 0 /\ grid_si = 0
    /\ bt_signals = <<>> /\ stock_summaries = <<>> /\ grid_results = <<>>
    /\ gdf = <<>> /\ gpc = "off"

\* Cell 4 before its loop: the grid is built, grid_results is empty
GridInit ==
    /\ param_grid \in ParamGrids
    /\ sorted_stocks \in StockLists
    /\ grid_pi = 1 /\ grid_si = 0
    /\ bt_signals = <<>> /\ stock_summaries = <<>> /\ grid_results = <<>>
    /\ gdf = <<>> /\ gpc = "call"

\* backtest_signals is called for param_grid[grid_pi]
GridCall ==
    /\ gpc = "call"
    /\ grid_pi <= Len(param_grid)
    /\ bt_signals' = NewList(bt_signals)
    /\ stock_summaries' = NewList(stock_summaries)
    /\ grid_si' = 0
    /\ gpc' = "stocks"
    /\ UNCHANGED <<param_grid, sorted_stocks, grid_pi, grid_results, gdf>>
    /\ UNCHANGED <<ledgerVars, exitVars, scanVars, poolVars, rollVars, replayVars, nightVars, alertVars, cacheVars>>

\* one iteration of `for si, (code, valid_dates) in enumerate(sorted_stocks)`
GridStock ==
    /\ gpc = "stocks"
    /\ grid_si < Len(sorted_stocks)
    /\ LET stock == sorted_stocks[grid_si + 1]
           r     == ScanStock(stock, param_grid[grid_pi])
       IN /\ bt_signals' = bt_signals \o r.signals
          /\ stock_summaries' =
                IF ~r.raised /\ r.signals # <<>>
                THEN Append(stock_summaries,
                            [code |-> stock.code, total |-> Len(r.signals)])
                ELSE stock_summaries
    /\ grid_si' = grid_si + 1
    /\ UNCHANGED <<param_grid, sorted_stocks, grid_pi, grid_results, gdf, gpc>>
    /\ UNCHANGED <<ledgerVars, exitVars, scanVars, poolVars, rollVars, replayVars, nightVars, alertVars, cacheVars>>

\* the call returns; Cell 4 appends a row to grid_results if it got a result
GridReturn ==
    /\ gpc = "stocks"
    /\ grid_si = Len(sorted_stocks)
    /\ LET result == BacktestResult(bt_signals, stock_summaries)
       IN grid_results' =
              IF Recorded(result)
              THEN Append(grid_results,
                          [pi |-> grid_pi, params |-> param_grid[grid_pi],
                           result |-> result])
              ELSE grid_results
    /\ grid_pi' = grid_pi + 1
    /\ gpc' = "call"
    /\ UNCHANGED <<param_grid, sorted_stocks, grid_si, bt_signals,
                   stock_summaries, gdf>>
    /\ UNCHANGED <<ledgerVars, exitVars, scanVars, poolVars, rollVars, replayVars, nightVars, alertVars, cacheVars>>

\* Cell 5: the ranking is made of the rows of grid_results
GridRank ==
    /\ gpc = "call"
    /\ grid_pi > Len(param_grid)
    /\ gdf' = grid_results
    /\ gpc' = "done"
    /\ UNCHANGED <<param_grid, sorted_stocks, grid_pi, grid_si, bt_signals,
                   stock_summaries, grid_results>>
    /\ UNCHANGED <<ledgerVars, exitVars, scanVars, poolVars, rollVars, replayVars, nightVars, alertVars, cacheVars>>

GridNext == GridCall \/ GridStock \/ GridReturn \/ GridRank

\* =====================================================================
\* build_rolling_pool (joinquant_volatility_v4.2.py): the pool dates of one
\* candidate stock.
\*
\* pool_bars[k] is the daily bar of the k-th trading day of the fetched range
\* (data_start .. END_DATE), so day numbers are positions of the arrays
\* high_arr / close_arr, counted from 1.  market_cap is in units of 1e8 yuan,
\* as valuation.market_cap.
\* =====================================================================
\* length of the trailing window (250 trading days in the code) and the
\* shortest history a stock must have (300)
YearBars     == 2
MinDailyBars == YearBars + 1

\* trading days of the fetched range
NPoolDays == 5

\* bt_start is 365 calendar days after data_start, fewer trading days than
\* the trailing window is long
BtStartDay == YearBars

\* MARKET_CAP_TIERS and MAX_PRICE_RATIO_DEFAULT; a ratio is <<num, den>>
MARKET_CAP_TIERS        == << <<100, <<1, 2>> >>, <<50, <<1, 3>> >> >>
MAX_PRICE_RATIO_DEFAULT == <<1, 3>>

MarketCaps == {30, 60, 120}

PoolBars ==
    { [high |-> 12, close |-> 10],
      [high |-> 6,  close |-> 5],
      [high |-> 4,  close |-> 3] }

\* variant: the loop has no break, the last matching tier stays
TierRatio_NoBreak(tiers, mcap) ==
    IF \E k \in 1..Len(tiers) : mcap >= tiers[k][1]
    THEN tiers[CHOOSE k \in 1..Len(tiers) :
                  /\ mcap >= tiers[k][1]
                  /\ \A j \in (k + 1)..Len(tiers) : ~(mcap >= tiers[j][1])][2]
    ELSE MAX_PRICE_RATIO_DEFAULT

\* for tier_cap, tier_ratio in tiers: if cap * 1e8 >= tier_cap: ratio = tier_ratio; break
RECURSIVE TierRatio(_, _)
TierRatio(tiers, mcap) ==
    IF tiers = <<>> THEN MAX_PRICE_RATIO_DEFAULT
    ELSE IF mcap >= Head(tiers)[1] THEN Head(tiers)[2]
    ELSE TierRatio(Tail(tiers), mcap)

\* high_arr[j-250:j].max(), j being the position of the day
RECURSIVE YearHigh(_, _, _)
YearHigh(bars, j, n) ==
    IF n = 1 THEN bars[j - 1].high
    ELSE Max(bars[j - n].high, YearHigh(bars, j, n - 1))

\* the body of `for j in range(250, len(close_arr))`: is day j a pool date
Eligible(bars, j, mcap) ==
    LET year_high == YearHigh(bars, j, YearBars)
        current   == bars[j].close
        ratio     == TierRatio(MARKET_CAP_TIERS, mcap)
    IN /\ ~(j < BtStartDay)
       /\ current * ratio[2] < year_high * ratio[1]

PoolIdle ==
    /\ market_cap = 0 /\ pool_bars = <<>> /\ pool_j = 0
    /\ valid_dates = {} /\ ppc = "off"

\* a candidate stock of the batch and its fetched daily bars
PoolInit ==
    /\ market_cap \in MarketCaps
    /\ pool_bars \in UNION { [1..n -> PoolBars] : n \in (MinDailyBars - 1)..NPoolDays }
    /\ pool_j = 0
    /\ valid_dates = {}
    /\ ppc = "start"

\* if len(highs) < 300: continue
PoolStart ==
    /\ ppc = "start"
    /\ IF Len(pool_bars) < MinDailyBars
       THEN ppc' = "done" /\ UNCHANGED pool_j
       ELSE ppc' = "loop" /\ pool_j' = YearBars + 1
    /\ UNCHANGED <<market_cap, pool_bars, valid_dates>>
    /\ UNCHANGED <<ledgerVars, exitVars, scanVars, rollVars, replayVars, gridVars, nightVars, alertVars, cacheVars>>

\* one iteration of the loop over the days
PoolDay ==
    /\ ppc = "loop"
    /\ pool_j <= Len(pool_bars)
    /\ valid_dates' = IF Eligible(pool_bars, pool_j, market_cap)
                      THEN valid_dates \cup {pool_j} ELSE valid_dates
    /\ pool_j' = pool_j + 1
    /\ UNCHANGED <<market_cap, pool_bars, ppc>>
    /\ UNCHANGED <<ledgerVars, exitVars, scanVars, rollVars, replayVars, gridVars, nightVars, alertVars, cacheVars>>

\* the loop is over; pool_calendar[code] = valid_dates if there are any
PoolEnd ==
    /\ ppc = "loop"
    /\ pool_j > Len(pool_bars)
    /\ ppc' = "done"
    /\ UNCHANGED <<market_cap, pool_bars, pool_j, valid_dates>>
    /\ UNCHANGED <<ledgerVars, exitVars, scanVars, rollVars, replayVars, gridVars, nightVars, alertVars, cacheVars>>

PoolNext == PoolStart \/ PoolDay \/ PoolEnd

\* =====================================================================
\* backtest_single_rolling (joinquant_volatility_v4.2.py): the scan of one
\* stock with one parameter set, sold on the next daily bar.
\*
\* roll_df holds the intraday rows as min_df above; every date of the model
\* is a pool date of the stock.  A statistic of the returns is a fraction
\* [num, den]; den = 0 is NaN (the mean of no values).  Sale prices are
\* multiplied by 100.
\* =====================================================================
\* trading days of intraday data
NRollDays == 5

\* entries of param_grid (multiplier as <<num, den>>) for a stock of the main
\* board or of the boards with a 20 % price limit
RollGrid ==
    { [signal_type |-> "max_break",  stat_method |-> "None",   multiplier |-> <<1, 1>>, limit_pct |-> 10],
      [signal_type |-> "mult_break", stat_method |-> "mean",   multiplier |-> <<3, 2>>, limit_pct |-> 10],
      [signal_type |-> "mult_break", stat_method |-> "median", multiplier |-> <<2, 1>>, limit_pct |-> 20] }

\* rows of the daily table around a trigger date
RollDailyBars ==
    { [high |-> 110, low |-> 100, close |-> 105],
      [high |-> 104, low |-> 99,  close |-> 100] }

Rat(n) == [num |-> n, den |-> 1]

IsNaN(x) == x.den = 0

\* series.mean()
Mean(seq) == [num |-> SumSeq(seq, Len(seq)), den |-> Len(seq)]

RECURSIVE Sorted(_)
Sorted(seq) ==
    IF Len(seq) <= 1 THEN seq
    ELSE LET k == CHOOSE k \in 1..Len(seq) : \A j \in 1..Len(seq) : seq[k] <= seq[j]
         IN <<seq[k]>> \o Sorted(SubSeq(seq, 1, k - 1) \o SubSeq(seq, k + 1, Len(seq)))

\* series.median() of a non-empty series
Median(seq) ==
    LET srt == Sorted(seq)
        n   == Len(srt)
    IN IF n % 2 = 1 THEN Rat(srt[(n + 1) \div 2])
       ELSE [num |-> srt[n \div 2] + srt[n \div 2 + 1], den |-> 2]

\* hist_returns[hist_returns > 0]
Positive(seq) == SelectSeq(seq, LAMBDA r : r > 0)

\* base of the mult_break threshold
Base(stat_method, rets) ==
    IF stat_method = "mean" THEN Mean(Positive(rets))
    ELSE IF Len(Positive(rets)) > 0 THEN Median(Positive(rets)) ELSE Rat(0)

\* pd.isna(x) or x <= 0
Unusable(x) == IsNaN(x) \/ x.num <= 0

\* variant: a day is scanned whatever its number of bars
ShortDay_Never(bars) == FALSE

\* len(day_bars) < 5
ShortDay(bars) == Len(bars) < MIN_DAY_BARS

\* bar_ret > threshold
Exceeds(r, th) == ~IsNaN(th) /\ r * th.den > th.num

\* first bar of the day whose return exceeds the threshold, 0 if none
FirstExceeding(rets, th) ==
    IF \E k \in 1..Len(rets) : Exceeds(rets[k], th)
    THEN CHOOSE k \in 1..Len(rets) :
            /\ Exceeds(rets[k], th)
            /\ \A j \in 1..(k - 1) : ~Exceeds(rets[j], th)
    ELSE 0

\* limit_price = round(today_close * (1 + limit_pct), 2), times 100
LimitPrice(today_close, limit_pct) == today_close * (100 + limit_pct)

\* the sale on the next daily bar: at the limit price if the high reaches
\* it, at the close otherwise
NextDaySale(today_bar, next_bar, limit_pct) ==
    LET limit_price == LimitPrice(today_bar.close, limit_pct)
    IN IF next_bar.high * 100 >= limit_price
       THEN [sell_price |-> limit_price, sell_type |-> "limit_up"]
       ELSE [sell_price |-> next_bar.close * 100, sell_type |-> "next_close"]

\* one iteration of `for i, date in enumerate(trade_dates)`
RollBody(df, d, i, last_idx, args, today_bar, next_bar) ==
    LET day_bars == DayBarsOf(df, d)
        hist     == Hist(df, d)
        window   == LastN(hist, LookbackBars)
        rets     == [k \in 1..Len(window) |-> BarReturn(window[k])]
        day_rets == [k \in 1..Len(day_bars) |-> BarReturn(day_bars[k])]
        base     == Base(args.stat_method, rets)
        th       == IF args.signal_type = "max_break" THEN Rat(MaxReturn(window))
                    ELSE [num |-> base.num * args.multiplier[1],
                          den |-> base.den * args.multiplier[2]]
        k        == FirstExceeding(day_rets, th)
        seen     == [stage |-> "", date |-> d, hist_len |-> Len(hist),
                     window |-> rets, day_returns |-> day_rets,
                     threshold |-> Rat(0), trigger_idx |-> 0,
                     sell_price |-> 0, sell_type |-> ""]
    IN IF InCooldown(i, last_idx) THEN [seen EXCEPT !.stage = "cooldown"]
       ELSE IF ShortDay(day_bars) THEN [seen EXCEPT !.stage = "short_day"]
       ELSE IF Len(hist) < LookbackBars THEN [seen EXCEPT !.stage = "short_hist"]
       ELSE IF args.signal_type = "mult_break" /\ Unusable(base)
            THEN [seen EXCEPT !.stage = "bad_base"]
       ELSE IF Unusable(th) THEN [seen EXCEPT !.stage = "bad_threshold", !.threshold = th]
       ELSE IF k = 0 THEN [seen EXCEPT !.stage = "no_trigger", !.threshold = th]
       ELSE IF today_bar = NoBar \/ next_bar = NoBar
            THEN [seen EXCEPT !.stage = "no_daily", !.threshold = th, !.trigger_idx = k]
       ELSE LET sale == NextDaySale(today_bar, next_bar, args.limit_pct)
            IN [seen EXCEPT !.stage = "signal", !.threshold = th, !.trigger_idx = k,
                            !.sell_price = sale.sell_price,
                            !.sell_type = sale.sell_type]

NoRollIteration ==
    [stage |-> "off", date |-> 0, hist_len |-> 0, window |-> <<>>,
     day_returns |-> <<>>, threshold |-> Rat(0), trigger_idx |-> 0,
     sell_price |-> 0, sell_type |-> ""]

RollIdle ==
    /\ roll_args = [signal_type |-> "", stat_method |-> "", multiplier |-> <<1, 1>>,
                    limit_pct |-> 0]
    /\ roll_df = <<>> /\ roll_i = 0 /\ roll_last_idx = -999
    /\ signals = <<>> /\ roll_iter = NoRollIteration /\ rpc = "off"

\* the state when the date loop starts
RollInit ==
    /\ roll_args \in RollGrid
    /\ roll_df = <<>> /\ roll_i = 0 /\ roll_last_idx = -999
    /\ signals = <<>> /\ roll_iter = NoRollIteration /\ rpc = "scan"

\* the loop body for the next date of trade_dates
RollDay ==
    /\ rpc = "scan"
    /\ roll_i < NRollDays
    /\ \E shape \in DayShapes \ {<<>>},
          today_bar \in RollDailyBars \cup {NoBar},
          next_bar \in RollDailyBars \cup {NoBar} :
         LET d  == roll_i + 1
             df == roll_df \o DayRows(shape, d)
             it == RollBody(df, d, roll_i, roll_last_idx, roll_args,
                            today_bar, next_bar)
         IN /\ roll_iter' = it
            /\ roll_i' = roll_i + 1
            /\ roll_df' = LastN(df, LookbackBars)
            /\ IF it.stage = "signal"
               THEN /\ roll_last_idx' = roll_i
                    /\ signals' = Append(signals,
                          [date |-> d,
                           trigger_price |-> DayBarsOf(df, d)[it.trigger_idx].close,
                           sell_price |-> it.sell_price,
                           sell_type |-> it.sell_type])
               ELSE UNCHANGED <<roll_last_idx, signals>>
    /\ UNCHANGED <<roll_args, rpc>>
    /\ UNCHANGED <<ledgerVars, exitVars, scanVars, poolVars, replayVars, gridVars, nightVars, alertVars, cacheVars>>

\* trade_dates is exhausted; (signals, summary) or None is returned
RollEnd ==
    /\ rpc = "scan"
    /\ roll_i = NRollDays
    /\ rpc' = "done"
    /\ UNCHANGED <<roll_args, roll_df, roll_i, roll_last_idx, signals, roll_iter>>
    /\ UNCHANGED <<ledgerVars, exitVars, scanVars, poolVars, replayVars, gridVars, nightVars, alertVars, cacheVars>>

RollNext == RollDay \/ RollEnd


\* =====================================================================
\* Overnight reversal, Cell 7: the capital simulation of
\* joinquant_overnight_reversal_v1.py / _v2.py (per_stock) and of
\* strategies/joinquant_overnight_reversal_v3.py (investable, weights).
\* INIT_CAPITAL, MAX_PER_TRADE and COMMISSION_PER_SIDE have the values of
\* the volatility ledger.  Money of this component is in tenths of a
\* yuan: the stamp tax, a thousandth of the sale of whole lots at a
\* whole-yuan price, is then an integer.
\* =====================================================================
NightDays == 2

CONSEC_LOSS_LIMIT      == 10
NIGHT_TOTAL_LOSS_LIMIT == 20000
TOP_N_LIST             == {1, 3, 5, 10}

\* an amount of whole yuan in tenths of a yuan
Tenths(yuan) == 10 * yuan

\* rows of trades_df: close and next_open in whole yuan, abs_change is
\* |change_pct| in thousandths
NightRowA == [close |-> 10, next_open |-> 10, abs_change |-> 23]
NightRowB == [close |-> 23, next_open |-> 24, abs_change |-> 12]

\* the day's selection: a rows like NightRowA, then b rows like NightRowB
SelOf(a, b) == [i \in 1..(a + b) |-> IF i <= a THEN NightRowA ELSE NightRowB]

\* calc_weights before normalisation: 1 for 'equal',
\* 1 / (|change_pct| + 0.01) for 'signal' (here times 0.066)
RawWeight(mode, row) ==
    IF mode = "signal" THEN 66 \div (row.abs_change + 10) ELSE 1

RawSum(mode, sel) ==
    SumSeq([i \in 1..Len(sel) |-> RawWeight(mode, sel[i])], Len(sel))

\* variant: every pick is given MAX_PER_TRADE whatever the capital
Alloc_Flat(mode, cap, sel, i) == <<Tenths(MAX_PER_TRADE), 1>>

\* the cash allotted to pick i, as a fraction <<numerator, denominator>>:
\*   v1, v2:  per_stock = min(MAX_PER_TRADE, capital / n_positions)
\*   v3:      alloc = min(capital * 0.95 * weights[i], MAX_PER_TRADE)
Alloc(mode, cap, sel, i) ==
    LET num == IF mode = "per_stock" THEN cap
               ELSE cap * 95 * RawWeight(mode, sel[i])
        den == IF mode = "per_stock" THEN Len(sel)
               ELSE 100 * RawSum(mode, sel)
    IN  IF num >= Tenths(MAX_PER_TRADE) * den
        THEN <<Tenths(MAX_PER_TRADE), 1>>
        ELSE <<num, den>>

\* shares = int(alloc / close / 100) * 100
NightShares(alloc, close) ==
    (alloc[1] \div (alloc[2] * Tenths(close) * 100)) * 100

\* pnl = sell_revenue - buy_cost - commission - stamp
NightPnl(shares, row) ==
    LET buy_cost     == shares * Tenths(row.close)
        sell_revenue == shares * Tenths(row.next_open)
        commission   == Tenths(COMMISSION_PER_SIDE) * 2
        stamp        == sell_revenue \div 1000
    IN  sell_revenue - buy_cost - commission - stamp

\* the rows the day appends to all_details / trade_details
DayDetails(mode, cap, sel, dno) ==
    LET row(i) == LET shares == NightShares(Alloc(mode, cap, sel, i), sel[i].close)
                  IN  [date |-> dno, shares |-> shares, buy |-> sel[i].close,
                       sell |-> sel[i].next_open,
                       pnl |-> NightPnl(shares, sel[i])]
    IN  SelectSeq([i \in 1..Len(sel) |-> row(i)], LAMBDA t : t.shares > 0)

NightIdle ==
    /\ sim_mode = "off" /\ sim_top_n = 0 /\ sim_capital = 0
    /\ sim_peak_capital = 0 /\ consecutive_loss_days = 0
    /\ stopped = FALSE /\ stop_reason = "" /\ daily_log = <<>>
    /\ all_details = <<>> /\ sim_day = 0 /\ npc = "off"

\* Cell 7 before its loop
NightInit ==
    /\ sim_mode \in {"per_stock", "equal", "signal"}
    /\ sim_top_n \in TOP_N_LIST
    /\ sim_capital = Tenths(INIT_CAPITAL)
    /\ sim_peak_capital = Tenths(INIT_CAPITAL)
    /\ consecutive_loss_days = 0
    /\ stopped = FALSE /\ stop_reason = "" /\ daily_log = <<>>
    /\ all_details = <<>> /\ sim_day = 0 /\ npc = "run"

\* how many of a day's n picks are rows like NightRowA
NightMixes(n) == {0, n \div 2, n}

\* one iteration of `for day_str in sorted(...['date'].unique())`
NightDay ==
    /\ npc = "run" /\ ~stopped /\ sim_day < NightDays
    /\ \E n \in 1..sim_top_n : \E a \in NightMixes(n) :
       \E details \in {DayDetails(sim_mode, sim_capital, SelOf(a, n - a), sim_day + 1)} :
       \E day_pnl \in {SumSeq([i \in 1..Len(details) |-> details[i].pnl], Len(details))} :
        LET short    == /\ sim_mode = "per_stock"
                        /\ sim_capital < Tenths(500) * n
            cap2     == sim_capital + day_pnl
            losses   == IF day_pnl < 0 THEN consecutive_loss_days + 1 ELSE 0
            consec   == losses >= CONSEC_LOSS_LIMIT
            total    == Tenths(INIT_CAPITAL) - cap2 >= Tenths(NIGHT_TOTAL_LOSS_LIMIT)
        IN  /\ sim_day' = sim_day + 1
            /\ IF short
               THEN /\ stopped' = TRUE /\ stop_reason' = "short_of_cash"
                    /\ npc' = "done"
                    /\ UNCHANGED <<sim_capital, sim_peak_capital,
                                   consecutive_loss_days, daily_log, all_details>>
               ELSE /\ all_details' = all_details \o details
                    /\ sim_capital' = cap2
                    /\ sim_peak_capital' = Max(sim_peak_capital, cap2)
                    /\ daily_log' = Append(daily_log,
                           [date |-> sim_day + 1, n_trades |-> Len(details),
                            day_pnl |-> day_pnl, capital |-> cap2])
                    /\ consecutive_loss_days' = losses
                    /\ stopped' = (consec \/ total)
                    /\ stop_reason' = IF consec THEN "consecutive_loss"
                                      ELSE IF total THEN "total_loss" ELSE ""
                    /\ npc' = IF consec \/ total THEN "done" ELSE "run"
    /\ UNCHANGED <<sim_mode, sim_top_n>>
    /\ UNCHANGED <<ledgerVars, exitVars, scanVars, poolVars, rollVars, replayVars, gridVars, alertVars, cacheVars>>

\* the loop has gone through every day
NightEnd ==
    /\ npc = "run" /\ sim_day = NightDays
    /\ npc' = "done"
    /\ UNCHANGED <<sim_mode, sim_top_n, sim_capital, sim_peak_capital,
                   consecutive_loss_days, stopped, stop_reason, daily_log,
                   all_details, sim_day>>
    /\ UNCHANGED <<ledgerVars, exitVars, scanVars, poolVars, rollVars, replayVars, gridVars, alertVars, cacheVars>>

NightNext == NightDay \/ NightEnd


\* =====================================================================
\* portfolio_monitor.py, check_stop_loss_alerts: one run of the intraday
\* stop-loss check per invocation (mode "alert"), with the state file
\* alert_state.json carried from run to run.  Prices are whole numbers;
\* calendar days are numbered 1, 2, ...
\* =====================================================================
NAlertDays == 2

\* rules.get('trailing_stop_pct', 15)
TRAILING_STOP_PCT == 15

\* accounts[0].holdings of portfolio.json; stop_price 0 stands for none
Holdings ==
    << [code |-> "A", type |-> "stock", cost |-> 100, stop_price |-> 90],
       [code |-> "B", type |-> "etf",   cost |-> 100, stop_price |-> 0] >>

HoldingCodes == {Holdings[i].code : i \in 1..Len(Holdings)}

\* prices get_realtime_prices may report; 0 stands for no price
RtPrices == {0, 70, 92, 120}

AlertKinds == {"stop", "near_stop", "etf_hard_stop"}

\* alert_key = f"{code}_stop", f"{code}_near_stop", f"{code}_etf_hard_stop"
AlertKey(code, kind) == <<code, kind>>

\* price <= effective_stop, effective_stop = max(trailing_stop, stop_price)
\* with trailing_stop = high_price * (1 - trailing_stop_pct / 100)
AtStop(h, high, price) ==
    \/ price * 100 <= high * (100 - TRAILING_STOP_PCT)
    \/ h.stop_price # 0 /\ price <= h.stop_price

\* price <= effective_stop * 1.03
NearStop(h, high, price) ==
    \/ price * 10000 <= high * (100 - TRAILING_STOP_PCT) * 103
    \/ h.stop_price # 0 /\ price * 100 <= h.stop_price * 103

\* pnl_pct = (price - cost) / cost * 100 <= -25
EtfHardStop(h, price) ==
    h.type = "etf" /\ (price - h.cost) * 100 <= -25 * h.cost

\* the keys whose condition holds for holding h at this price
Triggered(h, high, price) ==
    IF price = 0 THEN {}
    ELSE (IF AtStop(h, high, price) THEN {AlertKey(h.code, "stop")}
          ELSE IF NearStop(h, high, price) THEN {AlertKey(h.code, "near_stop")}
          ELSE {})
         \union
         (IF EtfHardStop(h, price) THEN {AlertKey(h.code, "etf_hard_stop")} ELSE {})

\* variant: the saved state is dropped on every run
StateFor_Always(state, now) == [date |-> now, alerted |-> {}]

\* if state.get('date') != today: state = {'date': today, 'alerted': {}}
StateFor(state, now) ==
    IF state.date # now THEN [date |-> now, alerted |-> {}] ELSE state

\* high_price after `if price > high_price: h['high_price'] = price`
NewHigh(high, price) == IF price > high THEN price ELSE high

\* the keys the holdings loop goes through, given the prices
AllTriggered(prices, highs) ==
    UNION {Triggered(Holdings[i], NewHigh(highs[Holdings[i].code], prices[Holdings[i].code]),
                     prices[Holdings[i].code]) : i \in 1..Len(Holdings)}

AlertIdle ==
    /\ alert_state = [date |-> 0, alerted |-> {}]
    /\ high_prices = <<>> /\ today = 0 /\ rt = <<>>
    /\ alerts = {} /\ sent = <<>> /\ apc = "off"

\* no alert_state.json yet (load_alert_state returns {}), no high_price
\* recorded yet (h.get('high_price') or h['cost'])
AlertInit ==
    /\ alert_state = [date |-> 0, alerted |-> {}]
    /\ high_prices = [c \in HoldingCodes |->
                        Holdings[CHOOSE i \in 1..Len(Holdings) : Holdings[i].code = c].cost]
    /\ today = 1
    /\ rt = [c \in HoldingCodes |-> 0]
    /\ alerts = {}
    /\ sent = [k \in (1..NAlertDays) \X (HoldingCodes \X AlertKinds) |-> 0]
    /\ apc = "on"

\* one invocation of check_stop_loss_alerts
AlertRun ==
    /\ apc = "on"
    /\ \E fetched \in BOOLEAN : \E prices \in [HoldingCodes -> RtPrices] :
        IF ~fetched
        THEN \* `if not rt: return None`
             /\ rt' = [c \in HoldingCodes |-> 0]
             /\ alerts' = {}
             /\ UNCHANGED <<alert_state, high_prices, sent>>
        ELSE LET state == StateFor(alert_state, today)
                 new   == AllTriggered(prices, high_prices) \ state.alerted
             IN  /\ rt' = prices
                 /\ alerts' = new
                 /\ alert_state' = [date |-> state.date,
                                    alerted |-> state.alerted \union new]
                 /\ high_prices' = [c \in HoldingCodes |->
                                       NewHigh(high_prices[c], prices[c])]
                 /\ sent' = [k \in DOMAIN sent |->
                               IF k[1] = today /\ k[2] \in new
                               THEN sent[k] + 1 ELSE sent[k]]
    /\ UNCHANGED <<today, apc>>
    /\ UNCHANGED <<ledgerVars, exitVars, scanVars, poolVars, rollVars, replayVars, gridVars, nightVars, cacheVars>>

\* the calendar date changes between two invocations
AlertMidnight ==
    /\ apc = "on" /\ today < NAlertDays
    /\ today' = today + 1
    /\ UNCHANGED <<alert_state, high_prices, rt, alerts, sent, apc>>
    /\ UNCHANGED <<ledgerVars, exitVars, scanVars, poolVars, rollVars, replayVars, gridVars, nightVars, cacheVars>>

AlertNext == AlertRun \/ AlertMidnight


\* =====================================================================
\* strategies/jq_data_cache.py, step_pool: the download loop over
\* candidate_codes with the per-instrument daily cache files, run again
\* (with a fresh quota) after a run that stopped on the quota.
\* Instruments are numbered 1..NCodes in the order of candidate_codes.
\* =====================================================================
NCodes       == 22
MaxCacheRuns == 2

\* `downloaded % 20 == 0` and `remaining < 1000`; check_quota(500)
QUOTA_CHECK_EVERY == 20
QUOTA_MIN_SPARE   == 1000
QUOTA_MIN_START   == 500

\* the provider's spare quota at the start of a run
SpareChoices == {400, 8000, 100000}

\* rows of daily bars the provider holds for an instrument
DfLen(code) == IF code % 5 = 0 THEN 200 ELSE 400

\* whether the instrument's bars give a non-empty valid_dates
HasValidDates(code) == code % 2 = 1

\* what jq.get_price may do for an instrument: a frame, an empty frame or
\* None, an exception
PriceOutcomes(code, quota) ==
    IF quota < DfLen(code) THEN {"error"}
    ELSE IF code = 2 THEN {"ok", "empty", "error"}
    ELSE {"ok"}

\* variant: the cache file is never looked for
CacheHit_Never(files, code) == FALSE

\* os.path.exists(cache_file)
CacheHit(files, code) == code \in files

\* the instrument enters pool_calendar: len(df) >= 300 and valid_dates
PoolAfter(pool, code) ==
    IF DfLen(code) >= 300 /\ HasValidDates(code)
    THEN pool \union {code} ELSE pool

CacheIdle ==
    /\ cache_files = {} /\ cache_pos = 0 /\ downloaded = 0 /\ cached = 0
    /\ quota_exhausted = FALSE /\ spare = 0 /\ fetches = <<>>
    /\ pool_calendar = {} /\ pool_file = {} /\ cache_run = 0 /\ cpc = "off"

\* before the first run: some daily files may already be there
CacheInit ==
    /\ cache_files \in {{}, {1, 3}}
    /\ cache_pos = 0 /\ downloaded = 0 /\ cached = 0
    /\ quota_exhausted = FALSE
    /\ spare \in SpareChoices
    /\ fetches = [c \in 1..NCodes |-> 0]
    /\ pool_calendar = {} /\ pool_file = {} /\ cache_run = 1 /\ cpc = "start"

\* step_pool up to the loop: already_cached, to_download_count, check_quota(500)
CacheStart ==
    /\ cpc = "start"
    /\ LET to_download_count == Cardinality((1..NCodes) \ cache_files)
       IN  cpc' = IF to_download_count # 0 /\ spare < QUOTA_MIN_START
                  THEN "done" ELSE "loop"
    /\ UNCHANGED <<cache_files, cache_pos, downloaded, cached, quota_exhausted,
                   spare, fetches, pool_calendar, pool_file, cache_run>>
    /\ UNCHANGED <<ledgerVars, exitVars, scanVars, poolVars, rollVars, replayVars, gridVars, nightVars, alertVars>>

\* one iteration of `for code in batch`
CacheCode ==
    /\ cpc = "loop" /\ ~quota_exhausted /\ cache_pos < NCodes
    /\ LET code == cache_pos + 1
       IN  IF CacheHit(cache_files, code)
           THEN \* df = pd.read_parquet(cache_file)
                /\ cached' = cached + 1
                /\ pool_calendar' = PoolAfter(pool_calendar, code)
                /\ cache_pos' = code
                /\ UNCHANGED <<cache_files, downloaded, quota_exhausted, spare, fetches>>
           ELSE IF /\ downloaded > 0 /\ downloaded % QUOTA_CHECK_EVERY = 0
                   /\ spare < QUOTA_MIN_SPARE
           THEN \* quota_exhausted = True; break
                /\ quota_exhausted' = TRUE
                /\ UNCHANGED <<cache_files, cache_pos, downloaded, cached, spare,
                               fetches, pool_calendar>>
           ELSE \E outcome \in PriceOutcomes(code, spare) :
                /\ fetches' = [fetches EXCEPT ![code] = @ + 1]
                /\ cache_pos' = code
                /\ IF outcome = "ok"
                   THEN /\ cache_files' = cache_files \union {code}
                        /\ downloaded' = downloaded + 1
                        /\ spare' = spare - DfLen(code)
                        /\ pool_calendar' = PoolAfter(pool_calendar, code)
                   ELSE UNCHANGED <<cache_files, downloaded, spare, pool_calendar>>
                /\ UNCHANGED <<cached, quota_exhausted>>
    /\ UNCHANGED <<pool_file, cache_run, cpc>>
    /\ UNCHANGED <<ledgerVars, exitVars, scanVars, poolVars, rollVars, replayVars, gridVars, nightVars, alertVars>>

\* after the loop: POOL_FILE is written, also when the quota ran out
CacheSave ==
    /\ cpc = "loop" /\ (quota_exhausted \/ cache_pos = NCodes)
    /\ pool_file' = pool_calendar
    /\ cpc' = "done"
    /\ UNCHANGED <<cache_files, cache_pos, downloaded, cached, quota_exhausted,
                   spare, fetches, pool_calendar, cache_run>>
    /\ UNCHANGED <<ledgerVars, exitVars, scanVars, poolVars, rollVars, replayVars, gridVars, nightVars, alertVars>>

\* step_pool is started again later, the daily files still in place
CacheAgain ==
    /\ cpc = "done" /\ cache_run < MaxCacheRuns
    /\ cache_run' = cache_run + 1
    /\ spare' \in SpareChoices
    /\ cache_pos' = 0 /\ downloaded' = 0 /\ cached' = 0
    /\ quota_exhausted' = FALSE /\ pool_calendar' = {}
    /\ cpc' = "start"
    /\ UNCHANGED <<cache_files, fetches, pool_file>>
    /\ UNCHANGED <<ledgerVars, exitVars, scanVars, poolVars, rollVars, replayVars, gridVars, nightVars, alertVars>>

CacheNext == CacheStart \/ CacheCode \/ CacheSave \/ CacheAgain


\* =====================================================================
\* Specifications
\* =====================================================================
LedgerIdle ==
    /\ capital = INIT_CAPITAL /\ peak_capital = INIT_CAPITAL /\ max_drawdown = 0
    /\ positions = <<>> /\ trade_log = <<>> /\ consecutive_losses = 0
    /\ strategy_paused = FALSE /\ pause_reason = "" /\ daily_pnl = <<>>
    /\ cur_date = 1 /\ n_seen = 0 /\ lpc = "off"

LedgerSpecInit == LedgerInit /\ ExitIdle /\ ScanIdle /\ PoolIdle /\ RollIdle /\ ReplayIdle /\ GridIdle /\ NightIdle /\ AlertIdle /\ CacheIdle

LedgerSpec == LedgerSpecInit /\ [][LedgerNext]_vars

LossRunSpecInit == LedgerInit /\ ExitIdle /\ ScanIdle /\ PoolIdle /\ RollIdle /\ ReplayIdle /\ GridIdle /\ NightIdle /\ AlertIdle /\ CacheIdle

LossRunSpec == LossRunSpecInit /\ [][LossRunNext]_vars

ExitSpecInit == ExitInit /\ LedgerIdle /\ ScanIdle /\ PoolIdle /\ RollIdle /\ ReplayIdle /\ GridIdle /\ NightIdle /\ AlertIdle /\ CacheIdle

ExitSpec == ExitSpecInit /\ [][ExitNext]_vars

ScanSpecInit == ScanInit /\ LedgerIdle /\ ExitIdle /\ PoolIdle /\ RollIdle /\ ReplayIdle /\ GridIdle /\ NightIdle /\ AlertIdle /\ CacheIdle

ScanSpec == ScanSpecInit /\ [][ScanNext]_vars

PoolSpecInit == PoolInit /\ LedgerIdle /\ ExitIdle /\ ScanIdle /\ RollIdle /\ ReplayIdle /\ GridIdle /\ NightIdle /\ AlertIdle /\ CacheIdle

PoolSpec == PoolSpecInit /\ [][PoolNext]_vars

RollSpecInit == RollInit /\ LedgerIdle /\ ExitIdle /\ ScanIdle /\ PoolIdle /\ ReplayIdle /\ GridIdle /\ NightIdle /\ AlertIdle /\ CacheIdle

RollSpec == RollSpecInit /\ [][RollNext]_vars

ReplaySpecInit == LedgerInit /\ ReplayInit /\ ExitIdle /\ ScanIdle /\ PoolIdle /\ RollIdle /\ GridIdle /\ NightIdle /\ AlertIdle /\ CacheIdle

ReplaySpec == ReplaySpecInit /\ [][ReplayNext]_vars

GridSpecInit == GridInit /\ LedgerIdle /\ ExitIdle /\ ScanIdle /\ PoolIdle /\ RollIdle /\ ReplayIdle /\ NightIdle /\ AlertIdle /\ CacheIdle

GridSpec == GridSpecInit /\ [][GridNext]_vars

NightSpecInit == NightInit /\ LedgerIdle /\ ExitIdle /\ ScanIdle /\ PoolIdle /\ RollIdle /\ ReplayIdle /\ GridIdle /\ AlertIdle /\ CacheIdle

NightSpec == NightSpecInit /\ [][NightNext]_vars

AlertSpecInit == AlertInit /\ LedgerIdle /\ ExitIdle /\ ScanIdle /\ PoolIdle /\ RollIdle /\ ReplayIdle /\ GridIdle /\ NightIdle /\ CacheIdle

AlertSpec == AlertSpecInit /\ [][AlertNext]_vars

CacheSpecInit == CacheInit /\ LedgerIdle /\ ExitIdle /\ ScanIdle /\ PoolIdle /\ RollIdle /\ ReplayIdle /\ GridIdle /\ NightIdle /\ AlertIdle

CacheSpec == CacheSpecInit /\ [][CacheNext]_vars

\* =====================================================================
\* Properties of the ledger (LedgerSpec)
\* =====================================================================
SumPnl(log) == SumSeq([i \in 1..Len(log) |-> log[i].pnl], Len(log))

\* entry cost of the positions the ledger holds open
RECURSIVE OpenEntryCost(_)
OpenEntryCost(pos) ==
    IF DOMAIN pos = {} THEN 0
    ELSE LET c == CHOOSE x \in DOMAIN pos : TRUE
         IN BuyCost(pos[c].shares, pos[c].buy_price)
            + OpenEntryCost([d \in (DOMAIN pos) \ {c} |-> pos[d]])

FillsOn(d) == { i \in 1..Len(trade_log) : trade_log[i].buy_date = d }

\* C4: the number of simultaneously open positions never exceeds
\* MAX_POSITIONS (a candidate arriving at the limit is skipped).
C4_PositionCap ==
    \A d \in 1..cur_date : Cardinality(FillsOn(d)) <= MAX_POSITIONS

\* cash the ledger sized fill i with
CashBefore(i) == trade_log[i].capital_after - trade_log[i].pnl

\* C5: the cash committed to a trade is not available to a candidate dated
\* before that trade's exit date: a fill j made on the buy date of an
\* earlier fill i (whose exit is on a later day) is sized with cash that
\* holds neither i's entry cost nor i's sale proceeds.
C5_CashLockedUntilExit ==
    \A i, j \in 1..Len(trade_log) :
        (i < j /\ trade_log[i].buy_date = trade_log[j].buy_date)
        => CashBefore(j) <= CashBefore(i)
                            - BuyCost(trade_log[i].shares, trade_log[i].buy_price)

RECURSIVE LossRun(_)
LossRun(log) ==
    IF log = <<>> \/ ~IsLoss(log[Len(log)].pnl) THEN 0
    ELSE 1 + LossRun(SubSeq(log, 1, Len(log) - 1))

\* C11: the run halts right after the trade that completes
\* MAX_CONSECUTIVE_LOSS consecutive losing trades, the loss counter halts it
\* no earlier, and no trade is logged after that one.
C11_HaltAtTenthLoss ==
    /\ LossRun(trade_log) >= MAX_CONSECUTIVE_LOSS => strategy_paused
    /\ LossRun(trade_log) <= MAX_CONSECUTIVE_LOSS
    /\ pause_reason = "consecutive_losses"
         => LossRun(trade_log) = MAX_CONSECUTIVE_LOSS
    /\ ~strategy_paused => consecutive_losses = LossRun(trade_log)

C11_Witness ==
    /\ strategy_paused
    /\ pause_reason = "consecutive_losses"
    /\ Len(trade_log) = MAX_CONSECUTIVE_LOSS + 1
    /\ ~IsLoss(trade_log[1].pnl)
    /\ lpc = "done"
    /\ n_seen < MaxLossRows

\* C12: after each logged trade the triggers are evaluated in the order
\* daily loss, consecutive losses, total loss; the recorded reason is that
\* of the first breached trigger in this order, and the run is halted
\* exactly when one of them is breached.
C12_FirstBreachedReason ==
    trade_log # <<>> =>
      LET last   == trade_log[Len(trade_log)]
          daily_ == DailyPnlGet(daily_pnl, last.buy_date) <= DAILY_LOSS_LIMIT
          run_   == LossRun(trade_log) >= MAX_CONSECUTIVE_LOSS
          total_ == last.capital_after - INIT_CAPITAL <= TOTAL_LOSS_LIMIT
      IN /\ strategy_paused = (daily_ \/ run_ \/ total_)
         /\ pause_reason = (IF daily_ THEN "daily_loss"
                            ELSE IF run_ THEN "consecutive_losses"
                            ELSE IF total_ THEN "total_loss"
                            ELSE "")

\* the trade that halts the run breaches all three triggers
C12_Witness ==
    /\ strategy_paused
    /\ pause_reason = "daily_loss"
    /\ LossRun(trade_log) >= MAX_CONSECUTIVE_LOSS
    /\ capital - INIT_CAPITAL <= TOTAL_LOSS_LIMIT

C14_ShareSizing ==
    \A i \in 1..Len(trade_log) :
        LET afford == Min(MAX_PER_TRADE, CashBefore(i) - COMMISSION_PER_SIDE)
            t      == trade_log[i]
        IN /\ t.shares >= 100
           /\ t.shares % 100 = 0
           /\ t.shares * t.buy_price <= afford
           /\ (t.shares + 100) * t.buy_price > afford
           /\ t.buy_price * 100 <= afford

\* a three-lot fill after a row that could not afford one lot
C14_Witness ==
    /\ trade_log # <<>>
    /\ trade_log[Len(trade_log)].shares = 300
    /\ n_seen > Len(trade_log)
    /\ Len(trade_log) >= 2

\* C27: the cash is never negative: right after the entry cost (shares times
\* entry price plus commission) of an accepted row is deducted, what remains
\* is >= 0.
C27_CashNeverNegative ==
    /\ capital >= 0
    /\ \A i \in 1..Len(trade_log) :
          CashBefore(i) - BuyCost(trade_log[i].shares, trade_log[i].buy_price) >= 0

\* a fill made after losses have taken the cash down to 35000 or less
C27_Witness ==
    \E i \in 1..Len(trade_log) :
        /\ CashBefore(i) <= 35000
        /\ trade_log[i].shares > 0

ActiveStop(stop, trail) == IF trail > stop THEN trail ELSE stop

\* C6: the stop never decreases from one day to the next; it stays at
\* buy_price * (1 - initial_stop_pct) until breakeven is triggered.
C6_StopNeverDecreases ==
    [][epc = "loop" =>
         /\ stop_price' >= stop_price
         /\ ActiveStop(stop_price', trailing_sell_price')
              >= ActiveStop(stop_price, trailing_sell_price)
         /\ (~breakeven_activated'
               => stop_price' = InitialStop(buy_price, initial_stop_pct))
         /\ (breakeven_activated => breakeven_activated')]_vars

C6_Witness ==
    /\ epc = "loop"
    /\ day_idx >= 2
    /\ breakeven_activated
    /\ stop_price = buy_price * 100
    /\ trailing_sell_price > stop_price

C18_NoLossAfterBreakeven ==
    (epc = "done" /\ sell_result # None /\ breakeven_activated)
    => sell_result.sell_price >= buy_price * 100

\* C19: when neither the stop nor the trailing level is hit on the first
\* max_hold_days trading days after the entry, the position is sold at the
\* close of the max_hold_days-th trading day, as a time exit, with
\* hold_days = max_hold_days.
C19_TimeExitAtMaxHold ==
    (/\ epc = "done"
     /\ sell_result.sell_type = "time_exit"
     /\ Len(daily) >= max_hold_days
     /\ daily[max_hold_days] # NoBar)
    => /\ sell_result.sell_price = daily[max_hold_days].close * 100
       /\ sell_result.hold_days = max_hold_days

\* =====================================================================
\* Properties of the scan (ScanSpec)
\* =====================================================================
\* C1: the threshold a signal of date d was compared against is computed
\* only from intraday bars dated strictly before d.
C1_NoLookahead ==
    \A n \in 1..Len(all_signals) :
        /\ Len(all_signals[n].window) = LookbackBars
        /\ \A k \in 1..Len(all_signals[n].window) :
              all_signals[n].window[k] < all_signals[n].date

C1_Witness ==
    /\ Len(all_signals) >= 1
    /\ iter.stage = "signal"
    /\ \E r \in 1..Len(min_df) : min_df[r].date > iter.date

\* C2: between two consecutive signals of the stock there are at least
\* COOLDOWN_DAYS + 1 trading days.
C2_CooldownGap ==
    \A n \in 1..(Len(all_signals) - 1) :
        all_signals[n + 1].date - all_signals[n].date >= COOLDOWN_DAYS + 1

C2_Witness ==
    /\ Len(all_signals) >= 2
    /\ all_signals[2].date - all_signals[1].date = COOLDOWN_DAYS + 1

C9_PositiveBarFires ==
    (/\ iter.stage \in {"bad_threshold", "no_trigger", "no_exit", "signal"}
     /\ iter.threshold < 0
     /\ iter.day_max > 0)
    => iter.stage \in {"no_exit", "signal"}

\* C9 (amended): when no return of the lookback window is positive the day
\* is skipped: no bar of it triggers, whatever its return.
C9_NonPositiveThresholdSkips ==
    (/\ iter.stage \in {"bad_threshold", "no_trigger", "no_exit", "signal"}
     /\ iter.threshold <= 0)
    => /\ iter.stage = "bad_threshold"
       /\ \A n \in 1..Len(all_signals) : all_signals[n].date # iter.date

C9_Witness ==
    /\ iter.stage = "bad_threshold"
    /\ iter.threshold < 0
    /\ iter.day_max > 0

\* C16: the cooldown is counted in trading days: a day skipped by the
\* cooldown rule lies within COOLDOWN_DAYS trading days of the stock's last
\* signal.
C16_CooldownOnTradingCalendar ==
    iter.stage = "cooldown"
    => /\ all_signals # <<>>
       /\ iter.date - all_signals[Len(all_signals)].date <= COOLDOWN_DAYS

\* C17: a scanned day yields at most one signal of the stock; the signal is
\* for the first bar of the day whose return exceeds the threshold and is
\* priced at the close of that bar.
C17_FirstTriggerWins ==
    [][all_signals' # all_signals =>
         LET sig  == all_signals'[Len(all_signals')]
             bars == DayBarsOf(min_df, day')
             k    == sig.trigger_idx
         IN /\ all_signals' = Append(all_signals, sig)
            /\ sig.date = day'
            /\ \A n \in 1..Len(all_signals) : all_signals[n].date < day'
            /\ k \in 1..Len(bars)
            /\ BarReturn(bars[k]) > sig.threshold
            /\ \A j \in 1..(k - 1) : BarReturn(bars[j]) <= sig.threshold
            /\ sig.buy_price = bars[k].close
            /\ sig.bar_return = BarReturn(bars[k])]_vars

\* the signal bar is followed by a bar of the day with a larger return
C17_Witness ==
    /\ iter.stage = "signal"
    /\ iter.trigger_idx = 2
    /\ iter.day_max > iter.trigger_return
    /\ all_signals[Len(all_signals)].buy_price = 102

\* C26: the trades of one stock never overlap: a signal is accepted only on a
\* date strictly after the date on which the stock's previous trade is sold.
C26_NoOverlappingTrades ==
    \A n \in 1..(Len(all_signals) - 1) :
        all_signals[n + 1].date > all_signals[n].sell_bar_date

\* =====================================================================
\* Properties of the grid search (GridSpec)
\* =====================================================================
RECURSIVE FreshRun(_, _, _)
\* what a call of backtest_signals that starts from empty lists has
\* collected after the first k stocks
FreshRun(stocks, args, k) ==
    IF k = 0 THEN [signals |-> <<>>, stock_summaries |-> <<>>]
    ELSE LET prev == FreshRun(stocks, args, k - 1)
             r    == ScanStock(stocks[k], args)
         IN [signals |-> prev.signals \o r.signals,
             stock_summaries |->
                 IF ~r.raised /\ r.signals # <<>>
                 THEN Append(prev.stock_summaries,
                             [code |-> stocks[k].code, total |-> Len(r.signals)])
                 ELSE prev.stock_summaries]

\* the rows of grid_results for entry i of param_grid
RowsFor(i) == { n \in 1..Len(grid_results) : grid_results[n].pi = i }

\* the entries of param_grid whose evaluation is over
Evaluated == 1..(grid_pi - 1)

C22_EveryCombinationRecorded ==
    \A i \in Evaluated : RowsFor(i) # {}

\* C22 (amended): a combination without signals raises no error and leaves
\* no row: the search goes on with the next combination, and a combination
\* has a row in grid_results, and so in the ranking, exactly when its call
\* collected a signal.
C22_ZeroSignalsNoRow ==
    /\ \A i \in Evaluated :
          (RowsFor(i) # {})
              <=> (FreshRun(sorted_stocks, param_grid[i], Len(sorted_stocks)).signals # <<>>)
    /\ \A n \in 1..Len(grid_results) : grid_results[n].result.summary.total > 0
    /\ \A n \in 1..Len(gdf) : gdf[n].result.summary.total > 0
    /\ (gpc = "call" /\ grid_pi <= Len(param_grid)) => ENABLED GridCall

\* the first combination gave no signal, the second was evaluated after it
\* and is the only one ranked
C22_Witness ==
    /\ gpc = "done"
    /\ RowsFor(1) = {}
    /\ Len(gdf) = 1 /\ gdf[1].pi = 2

\* C23: when the scan of a stock fails, the search goes on and the stock
\* contributes nothing to the combination's signal list or statistics.
C23_FailedStockContributesNothing ==
    \A n \in 1..Len(grid_results) :
        \A k \in 1..Len(sorted_stocks) :
            ScanStock(sorted_stocks[k], grid_results[n].params).raised
            => \A m \in 1..Len(grid_results[n].result.signals) :
                   grid_results[n].result.signals[m].code # sorted_stocks[k].code

\* =====================================================================
\* Properties of the pool (PoolSpec)
\* =====================================================================
\* C15: the decision that admitted a day into the pool reads only daily
\* bars dated strictly before that day: with any other bar in place of the
\* day's own bar the day is admitted all the same.
C15_EligibilityNoLookahead ==
    \A d \in valid_dates :
        \A alt \in PoolBars :
            Eligible([pool_bars EXCEPT ![d] = alt], d, market_cap)

\* the tiers whose cap floor the market cap reaches
MatchingTiers(mcap) ==
    { k \in 1..Len(MARKET_CAP_TIERS) : MARKET_CAP_TIERS[k][1] <= mcap }

\* the ratio of the matching tier with the highest cap floor, the default
\* ratio when no tier matches
HighestTierRatio(mcap) ==
    IF MatchingTiers(mcap) = {} THEN MAX_PRICE_RATIO_DEFAULT
    ELSE MARKET_CAP_TIERS[CHOOSE k \in MatchingTiers(mcap) :
             \A j \in MatchingTiers(mcap) :
                 MARKET_CAP_TIERS[j][1] <= MARKET_CAP_TIERS[k][1]][2]

\* C24: every day the loop has decided is a pool date exactly when its close
\* is below the trailing high times the ratio of the first tier, in
\* descending order of cap floor, whose floor is <= the market cap (the
\* default ratio when there is none); a market cap of 120 uses 1/2.
C24_FirstMatchingTier ==
    /\ \A d \in (YearBars + 1)..(pool_j - 1) :
          (d \in valid_dates) <=>
              (pool_bars[d].close * HighestTierRatio(market_cap)[2]
                   < YearHigh(pool_bars, d, YearBars) * HighestTierRatio(market_cap)[1])
    /\ (market_cap = 120 /\ ppc # "off") => HighestTierRatio(market_cap) = <<1, 2>>

\* a stock of market cap 120 with a pool date that a ratio of 1/3 would refuse
C24_Witness ==
    /\ market_cap = 120
    /\ ppc = "done"
    /\ \E d \in valid_dates :
          ~(pool_bars[d].close * 3 < YearHigh(pool_bars, d, YearBars))

\* =====================================================================
\* Properties of backtest_single_rolling (RollSpec)
\* =====================================================================
\* the day handed to the loop body is degenerate: fewer than MIN_DAY_BARS
\* bars, a history shorter than the lookback window, or (mult_break) no
\* positive return in the window, which makes the mean NaN and gives the
\* median nothing to work on
DegenerateDay ==
    \/ Len(roll_iter.day_returns) < MIN_DAY_BARS
    \/ roll_iter.hist_len < LookbackBars
    \/ /\ roll_args.signal_type = "mult_break"
       /\ \A k \in 1..Len(roll_iter.window) : roll_iter.window[k] <= 0

\* C20: a degenerate scan day gives no signal and does not stop the scan:
\* the loop goes on with the next date.
C20_DegenerateDaySkipped ==
    (roll_iter.stage # "off" /\ DegenerateDay)
    => /\ roll_iter.stage \in {"cooldown", "short_day", "short_hist", "bad_base"}
       /\ \A n \in 1..Len(signals) : signals[n].date # roll_iter.date
       /\ roll_i = roll_iter.date
       /\ rpc \in {"scan", "done"}
       /\ (rpc = "scan" /\ roll_i < NRollDays => ENABLED RollDay)

\* under the median policy, a full day with a rising bar after a window
\* without positive return, later than a recorded signal
C20_Witness ==
    /\ roll_iter.stage = "bad_base"
    /\ roll_args.stat_method = "median"
    /\ roll_iter.hist_len = LookbackBars
    /\ \E k \in 1..Len(roll_iter.day_returns) : roll_iter.day_returns[k] > 0
    /\ signals # <<>>
    /\ rpc = "scan"


\* =====================================================================
\* Overnight reversal: the purchases of one simulated day
\* =====================================================================
\* capital at the start of the day of the k-th daily_log entry
CapitalBefore(k) ==
    IF k = 1 THEN Tenths(INIT_CAPITAL) ELSE daily_log[k - 1].capital

\* sum of buy_cost = shares * close over the day's rows of all_details
DayBought(k) ==
    LET cost(i) == IF all_details[i].date = daily_log[k].date
                   THEN all_details[i].shares * Tenths(all_details[i].buy)
                   ELSE 0
    IN  SumSeq([i \in 1..Len(all_details) |-> cost(i)], Len(all_details))

\* C28: on every simulated day of the overnight-reversal simulation the
\* purchase amounts (shares * close) of the day's trades add up to no
\* more than the capital at the start of that day.
C28_DayPurchasesWithinCapital ==
    \A k \in 1..Len(daily_log) : DayBought(k) <= CapitalBefore(k)

\* a second day on which at least five picks are bought, none of them
\* limited by MAX_PER_TRADE alone, and over nine tenths of the capital
\* (which is no longer the round initial amount) is spent
C28_Witness ==
    /\ Len(daily_log) = 2
    /\ daily_log[2].n_trades >= 5
    /\ CapitalBefore(2) # Tenths(INIT_CAPITAL)
    /\ DayBought(2) * 10 > CapitalBefore(2) * 9

\* =====================================================================
\* Intraday stop-loss check: alerts of one calendar day
\* =====================================================================
\* C29: over the repeated runs of the intraday stop-loss check within
\* one calendar day every alert key (stop, near-stop, ETF hard stop of a
\* holding) is emitted at most once, and a key leaves the set of
\* already-alerted keys only when the date of the state changes.
C29_AlertOncePerDay ==
    /\ [](\A k \in DOMAIN sent : sent[k] <= 1)
    /\ [][(alert_state.alerted \ alert_state'.alerted # {})
             => alert_state'.date # alert_state.date]_vars

\* the latest run found a stop condition that holds and said nothing,
\* because the key was emitted earlier the same day
C29_Witness ==
    /\ apc = "on"
    /\ alert_state.date = today
    /\ alerts = {}
    /\ \E key \in AllTriggered(rt, high_prices) :
          key \in alert_state.alerted /\ sent[<<today, key>>] = 1

\* =====================================================================
\* Data cache: no second download of a cached instrument
\* =====================================================================
\* C30: in the pool-building step an instrument whose daily cache file
\* exists is never fetched from the provider again, so a run started
\* again after the quota ran out fetches only instruments that have no
\* cache file yet.
C30_CachedNeverFetchedAgain ==
    [][\A c \in DOMAIN fetches :
          c \in cache_files => fetches'[c] = fetches[c]]_vars

\* a later run, after a run that stopped on the quota with 20 files
\* written, has passed the cached instruments and downloaded a new one;
\* no instrument has been asked for twice, so the earlier run never got
\* to the new one
C30_Witness ==
    /\ cache_run = 2
    /\ cached >= QUOTA_CHECK_EVERY
    /\ downloaded >= 1
    /\ \A c \in DOMAIN fetches : fetches[c] <= 1
====
